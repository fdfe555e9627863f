# TLA+ models of cuDF

This directory holds TLA+ specifications of parts of this repository, the TLC
configurations that model-check them on small instances, and proofs that the
TLA+ proof system (TLAPS) checks for every instance. Every definition is
translated from the source; `PROJECT.json` says, definition by definition, from
which lines. Paths below are relative to the repository's root.

Six parts are modelled so far:

| part | modules | kind of difficulty |
|---|---|---|
| spilling buffers | `SpillManager`, `SpillProperties`, `BufferStore`, `MCSpillManager`, `SpillManagerProofs` | Python threads, locks, a callback from inside the allocator |
| copy-on-write columns | `CopyOnWrite`, `ValueSemantics`, `MCCopyOnWrite`, `CopyOnWriteProofs` | aliasing, reference counts by weak sets, third parties with pointers |
| DEFLATE kernel | `GpuInflate`, `GpuInflateProofs`, `MCGpuInflate` | three warps that communicate through shared memory by busy waiting |
| chunked producers: Parquet and ORC readers, `contiguous_split` with `chunked_pack` | `ParquetChunks`, `OrcChunks`, `ContiguousSplit`, `Spans`, `PieceStream`, `ChunkedOutput`, `MCChunkedOutput`, `MCOrcChunks`, `OrcChunksProofs` | nested limits, estimates corrected later, cursors over several lists |
| multibyte split | `SplitScan`, `LookBack`, `OutputBuilder`, `BgzipReader`, `MCSplitScan`, `LookBackProofs`, `SplitScanProofs`, `SplitRowsProofs` | thread blocks that look back over each other, ranges that must meet |
| Java memory buffers | `MemoryBuffers`, `SharedMemory`, `MCMemoryBuffers`, `MemoryBuffersProofs` | reference counts, a cleaner thread, shutdown, exceptions half way |

Contents: 1 inventory, 2 plan, 3 spilling, 4 copy-on-write, 5 the DEFLATE
kernel, 6 chunked producers, 7 multibyte split, 8 Java buffers, 9 what the checks
show, 10 what is proved, 11 what is not modelled.

## 1. Inventory of the system

The repository is libcudf (a C++/CUDA library of column algorithms), its
bindings (Java, Cython), and the Python packages on top. Most of libcudf is
data-parallel: a function reads immutable columns, launches kernels on one
stream and returns new columns. It keeps no state between calls, and what can go
wrong in it is arithmetic per element, which tests reach. The state that lives
across calls, and the places where several actors meet, are these.

**Spilling buffers** (`python/cudf/cudf/core/buffer/`: `spillable_buffer.py`,
`spill_manager.py`, `utils.py`). *State:* per buffer owner its place
(`_ptr_desc`: type and memoryview), its device block, `_exposed`, the weak set
`_spill_locks`, `_last_accessed`, an `RLock`; in the manager the weak dictionary
of buffers and the device limit; one spill lock and nesting count per thread.
*Operations:* `get_ptr`, `spill`, `spill_lock`, `mark_exposed`, `memory_info`,
`memoryview`, `serialize`, `copy`, `as_buffer`, `spill_device_memory`,
`spill_to_device_limit`, the out-of-memory callback, `acquire_spill_lock`.
*Interactions:* RMM calls the manager back from inside an allocation when the
pool is exhausted; dask serializes buffers into frames; third parties obtain raw
pointers. *Hard:* the callback runs on a thread that may own a buffer's lock;
the scan tries locks without blocking; several fields are read without a lock;
MemoryError leaves through several `with` blocks. *Correct when:* a device
pointer that anyone holds stays valid; moving a buffer never changes its
content; a buffer is moved by one thread at a time; locks are given back; calls
return; the least recently used buffer goes first.

**Copy-on-write buffers and columns** (`core/buffer/buffer.py`,
`exposure_tracked_buffer.py`, `core/column/column.py`). *State:* the owner of
each allocation, the weak set of its slices, its exposure flag; a column's
`base_data`, cached `_data`, `_offset`, `size`. *Operations:* shallow and deep
copies, slices, in-place fill and scatter, `data`, `data_array_view`,
`__cuda_array_interface__`, adoption of a third party's memory. *Interactions:*
garbage collection decides who still counts as a slice; third parties write
through pointers. *Hard:* whether a write copies depends on the length of a weak
set; three fields of a column say the same thing and must move together.
*Correct when:* columns behave as values: what changes one changes no other.

**DEFLATE kernel** (`cpp/src/io/comp/gpuinflate.cu`). *State (shared memory):*
the input position, a prefetch ring with its two positions, a queue of symbol
batches with one length word each, error and last-block flags. *Operations:*
decode a symbol, publish a batch, consume a batch, fetch a chunk, begin and end
a block. *Hard:* warps meet only at the ends of a block and otherwise wait for
each other by polling. *Correct when:* input is consumed in order, every symbol
is written once and in order, every block ends.

**Snappy and Brotli decompressors, compressors** (`cpp/src/io/comp/unsnap.cu`,
`debrotli.cu`, `snap.cu`). Snappy has the same prefetcher, decoder and copier
around a queue of batches; a warp cooperates on decoding lengths. Brotli uses one
warp and a shared heap allocator (`debrotli.cu`: `ext_heap_alloc`, a lock-free
list across thread blocks). *Correct when:* as above; no heap block is given out
twice.

**Parquet chunked reader** (`cpp/src/io/parquet/reader_impl_chunking.cu`,
`reader_impl_preprocess.cu`, `reader_impl.cpp`, `reader_impl_helpers.cpp`).
*State:* the file-level passes, the pass's pages with their estimated or true row
counts, the current subpass, its output chunks and the row counters.
*Operations:* `has_next`, `read_chunk`, set-up of the next pass or subpass under
three limits. *Hard:* skipped rows, list columns whose rows cross pages and whose
counts are estimates until the pages are decompressed, an empty result. *Correct
when:* the chunks concatenate to the rows asked for, each once, and every call
advances.

**ORC chunked reader** (`cpp/src/io/orc/reader_impl*.cu`, `aggregate_orc_metadata.cpp`).
*State:* three lists of ranges (stripes to load, stripes to decode, rows to return),
each with a cursor; raw buffers; the decoded table. *Operations:* as above.
*Hard:* the lists are numbered from different starting points, and a decoded table must
be given out in full before the next. *Correct when:* as above.

**contiguous_split and chunked_pack** (`cpp/src/copying/contiguous_split.cu`).
*State:* source and destination descriptions per buffer of the nested columns,
batches, iterations, what was copied. *Operations:* `contiguous_split`,
`chunked_pack::create`, `next`, `build_metadata`. *Hard:* nested offsets, null
masks at bit offsets, batches that cross the user's buffer. *Correct when:* the
chunks concatenate to the packed table, and unpacking gives the rows back.

**Multibyte split** (`cpp/src/io/text/multibyte_split.cu`,
`cpp/include/cudf/io/text/detail/`, `bgzip_data_chunk_source.cu`,
`data_chunk_source_factories.cpp`, `cpp/src/io/utilities/output_builder.cuh`).
*State:* two rings of tile states in device memory, the output vectors, the
reader of the source. *Operations:* one call; a kernel per chunk. *Hard:* blocks of
a kernel communicate through the rings; delimiters cross threads, tiles and
chunks; byte ranges cut rows. *Correct when:* the rows are those that begin in the
range, and the call returns.

**JSON tokenizer** (`cpp/src/io/json`, `cpp/src/io/fst`). A finite-state
transducer run in parallel over tiles and a logical stack computed by a scan;
error recovery drops the rest of a line. *Correct when:* the parallel result is
the sequential parser's.

**Pinned host memory, stream pool, worker pool** (`cpp/src/utilities/`:
`host_memory.cpp`, `stream_pool.cpp`, `host_worker_pool.cpp`). *State:* a fixed
pinned pool and whether a block came from it or from the upstream resource; the
configured size, once; the event per thread and device of fork and join.
*Correct when:* a block goes back to where it came from; work before a fork
happens before work after the join.

**Java memory buffers and cleaner** (`java/src/main/java/ai/rapids/cudf/`:
`MemoryBuffer`, `HostMemoryBuffer`, `DeviceMemoryBuffer`, `MemoryCleaner`,
`ColumnVector`). *State:* reference counts, parents of slices, buffers of columns,
event handlers, the cleaner's map and queue of phantom references. *Operations:*
`incRefCount`, `close`, `slice`, columns over buffers, the cleaner thread, the
shutdown hook in debug mode, `Rmm.shutdown`'s last look, `setEventHandler`.
*Hard:* a buffer leaked by the program and freed by the cleaner, against a
`close` in flight; exceptions half way through a clean-up. *Correct when:* memory is
freed exactly once, never while a slice or column over it lives, and in the end
always.

**Java RMM bindings** (`Rmm.java`, `java/src/main/native/src/RmmJni.cpp`).
*State:* total and maximum allocated bytes per thread and overall, thresholds,
retry counts. *Hard:* `onAllocFailure` frees memory and asks for a retry while
other threads allocate; thresholds are crossed in between. *Correct when:* every
crossing is reported; an allocation is retried only when the handler says so.

**cudf.pandas** (`python/cudf/cudf/pandas/fast_slow_proxy.py`,
`module_accelerator.py`). *State:* each proxy's wrapped object and whether it is
the fast or the slow one; the per-thread count of disabled blocks; the import hook's
module maps. *Operations:* attribute access and calls that try the fast side and
fall back; `disable_module_accelerator`, which also counts for other threads
when the main thread has it. *Correct when:* a fallback sees every effect of the
fast calls before it; a disabled block sees the slow modules, and nothing stays
disabled after an exception.

**cudf_polars** (`python/cudf_polars`): a translator from polars plans, an
experimental task graph and a synchronous scheduler that releases results when
their last consumer has run. *Correct when:* no result is released before a use.

**custreamz and libcudf_kafka** (`python/custreamz`, `cpp/libcudf_kafka`): a
consumer that reads up to a batch's end offset under a timeout and commits
offsets. *Correct when:* a batch's messages are delivered once; offsets are
committed after them.

**Regular expressions** (`cpp/src/strings/regex`): a compiler to instructions and
an execution by lists of active instructions. *Correct when:* the matches are
those of the backtracking reading of the pattern.

**The rest**: strings and text, groupby, reductions, rolling, quantiles, join,
hashing, sort, merge, search, lists, structs, datetime, unary and binary
operations, columns and tables, CSV, Avro, ORC and Parquet codecs, Arrow
interop, JIT, pylibcudf, dask_cudf, benchmarks and examples. They are functions
without state of their own, bindings, or adapters to external schedulers.
`PROJECT.json` lists each with its status.

The hazards of the modelled parts, each at the line where it bites and with the
properties that would catch it, are in `PROJECT.json` under `hazards`.

## 2. Plan

Done, in this order:

1. `SpillManager` against `BufferStore`, with proofs, that of the refinement included. Spilling comes first: it has
   the most actors, and errors in it destroy data silently.
2. `CopyOnWrite` against `ValueSemantics`, with proofs, that of the refinement included.
3. `GpuInflate`, with proofs.
4. The chunked producers against `PieceStream`: `OrcChunks` with proofs, that of the refinement
   included; Parquet and `contiguous_split` side by side in `ChunkedOutput`.
5. Multibyte split: the look-back scan as a module of its own (`LookBack`), which
   `SplitScan` composes with the output builder and the readers; with proofs of the scan and,
   on top of it, of the prefixes and the rows.
6. `MemoryBuffers` (Java) against `SharedMemory`, with proofs, that of the refinement included.

Next, by what they would add:

7. *Theorems.* The lemmas of `OrcChunksProofs` about searches, sums and splits for
   `ParquetChunks`, whose `find_next_split` is akin to `find_splits`. The prefixes and the rows of `SplitScan` for block-gzipped files;
   `TypeOK` of `CopyOnWrite` for programs that take pointers out of columns but do not slice.
8. *Proxies of cudf.pandas*: what a fallback sees of the fast calls before it, and the
   disabled flag of the main thread, which counts for others.
9. *Pinned pool, stream pool, RMM events*: small state machines under many threads.
10. *Snappy*: `GpuInflate`'s queue of batches with a warp that cooperates on lengths.
11. *Kafka*, *JSON tokenizer*, *regular expressions*: the last two as
    algorithms against a sequential reference.

Each part takes one passing run; a passing run stays within minutes.

## 3. Spilling buffers

`BufferStore` is what the buffers promise: a buffer has one content; whoever got
a pointer may write until giving it up; nothing else changes the content. It
knows of no host, device, lock or manager. Its one concession is `Lose`, for what
an unspill may do that finds no memory (see the end of this section).

`SpillManager` is the code. A thread runs one call at a time; `call[t]` is its
Python frame, with a program counter. A step is the code between two points
where another thread may act on what it reads or writes: a lock taken or
released, an allocation, a copy, a field read without the buffer's lock. Python
switches threads between any two bytecodes, and what lies between those points
touches nothing that others can see, so finer steps would add no behaviour.

| variable | code |
|---|---|
| `type`, `memoryview`, `device` | `_ptr_desc["type"]`, `_ptr_desc["memoryview"]`, the block behind `_ptr`/`_owner` |
| `staged` | the bytes in the local variable of a move in flight |
| `exposed`, `spillLocks`, `rank` | `_exposed`, `_spill_locks`, the order of `_last_accessed` |
| `lockedBy`, `depth` | the buffer's `RLock` |
| `managed` | `SpillManager._buffers` |
| `call`, `need`, `context` | the thread's frame, the bytes its scan has to free, its nested `acquire_spill_lock` contexts |
| `held` | whose device pointers are in use: an abstraction of what callers do with `get_ptr`'s result |

| actions | code |
|---|---|
| `EnterContext`, `ExitContext` | `acquire_spill_lock` |
| `StartAccess`, `Acquire`, `OnDevice`, `PopMemoryview`, `Alloc`, `AllocFails`, `Settle`, `MarkExposed`, `SpillLock`, `UnspillEnd`, `ReturnPtr` | `get_ptr`, `mark_exposed`, `spill_lock`, `spill("gpu")` |
| `StartLocked`, `SpillBegin`, `SpillEnd`, `OnHost`, `ReturnHost`, `ViewPinned`, `Serialize`, `Raises` | `spill("cpu")`, `memoryview`, `serialize`, and the ValueError and KeyError paths |
| `MeasureLimit`, `Snapshot`, `ScanSkip`, `Evict`, `EvictOne`, `EvictEnd`, `Resume`, `ScanAgain`, `GiveUp` | `spill_to_device_limit`, `spill_device_memory`, `_out_of_memory_handle` with its retry after `gc.collect()` |
| `StartCreate`, `StartCreateHost`, `StartCopy`, `NewBlock`, `Register`, `LeaveCopy` | `as_buffer`, `from_host_memory`, `copy(deep=True)`, `SpillManager.add` |
| `Write`, `ReleaseFrame`, `Drop` | users: kernels through pointers, frames that die, the garbage collector |

RMM's pool is modelled from how the code uses it: an allocation fails when the
sizes in use exceed `Capacity`, then calls the handler, and tries again whenever
the handler returns `True`.

*Bounds.* `MaxCalls` bounds the calls (and contexts) started in a behaviour;
`MaxNesting` the nested contexts of a thread. Four calls by two threads are
enough for an access that evicts the other buffer, a pin around it, a frame and
one more access; two buffers and room for one make every access evict. Buffers,
contents and threads are model values; sizes are small numbers.

*Deadlock.* The configurations say `CHECK_DEADLOCK FALSE`, since users may stop
calling. That threads do not wait for each other for ever is `CallsReturn`, a
stronger statement.

*Fairness.* `FairSpec` has weak fairness of each thread's `Step`: a thread that
can go on goes on. Nobody has to start a call, leave a context or drop a buffer.
Python's and the operating system's schedulers give that; no lock needs to be
fair, since a thread that waits on a buffer's lock waits for one call to end.

Worth knowing: `spill_to_device_limit` passes the measured total minus the limit
to `spill_device_memory` whatever its sign, and that spills one buffer before it
compares; so each call evicts a buffer, however far below the limit the total
is. No document promises otherwise.

`spill("gpu")` takes the memoryview out of `_ptr_desc` before it allocates
(`spillable_buffer.py:227`). If the allocation raises MemoryError the bytes are gone and
the type is still `"cpu"`: later accesses raise KeyError, though the class promises that
unspilling is automatic. So `NothingLost` is no invariant. One thread, two buffers and room for
one are enough: expose the one on the device, and access the other. `LostOnlyByMemoryError`,
checked and proved, says that content is lost in no other way.

## 4. Copy-on-write columns

`ValueSemantics` is what copy-on-write promises: every column has a value of its
own; a copy or slice is a new value; a write changes the column it is made on; a
third party changes the columns that lie over its memory and no others, and those
alike.

`CopyOnWrite` is the code, with copy-on-write on. Calls run one at a time, since
columns have no locks and are not made for concurrent use; the interleaving is
that of calls by different holders, of third parties' writes, and of references
given up.

| variable | code |
|---|---|
| `program` | which calls the program makes, one of the sets `Programs`; it never changes |
| `column` | `_base_data`, `_data`, `_offset`, `size` of each column |
| `buffer` | `_owner`, `_offset`, `_size` of each `ExposureTrackedBuffer` |
| `slices`, `exposed`, `memory` | `BufferOwner._slices` (a weak set), `_exposed`, the elements of the allocation |
| `array` | memory in a third party's hands: which, and what its `owner` attribute keeps alive |

A call computes a new heap from the old by the operations of
`ExposureTrackedBuffer` (`AddSlice`, `MakeSingleOwner`, `CopyBuffer`,
`GetItem`, ...) and `Commit` then drops what nobody refers to any more, as
reference counting does at once.

| actions | code |
|---|---|
| `Create`, `Adopt` | `as_column` of host data, and of an object with `__cuda_array_interface__`, whose owner is born exposed |
| `Copy`, `CopyDeep`, `Slice` | `ColumnBase.copy`, `ColumnBase.slice` |
| `ReadData` | `values_host`, through the cached `data` |
| `Fill`, `Scatter` | `_fill` in place through the pointer; `_scatter_by_column`, which makes a new column and mimics it in place |
| `Interface`, `ValuesOf` | `__cuda_array_interface__`; `values` through `data_array_view(mode="write")` |
| `ExternalWrite`, `ReleaseArray`, `Drop` | third parties, references given up |

*Refinement.* `ImplementsValues` maps a column's value to the elements that libcudf
sees, and the columns lent to a third party to those over the memory of an array
that was made from them. A column that copies away from lent memory leaves that set.

*Bounds.* Two columns (every property relates one column or two; the proofs are
for any number). `cow_share` has three elements and two programs: one that
creates, copies, slices and writes; one that adopts a third party's memory,
copies it and writes next to the third party (slices of adopted memory are left
out, see below). `cow_lend` has one element, two arrays and every way to lend,
and checks the type invariant and the lending step; how elements are cut plays no
part there. There are seven identities of buffers and of owners, more than can be
in use, so `Room` stops no call. New columns start from one sequence (`Fresh`),
which writes then change.

*View and symmetry.* `UpToIdentity` forgets which identities buffers and owners
have and keeps what every place sees, which places share it and which count as
slices; `Next` treats identities alike, so states with the same view have the
same futures. Columns are symmetric in `cow_share`, which checks no liveness.

More that the model shows and no run repeats:

- After `__cuda_array_interface__` a shallow copy shares the memory that the third
  party writes, since the slice it lends is exposed and not the owner that later
  copies ask; the developer guide says that the buffer is then marked exposed and
  copies are deep (`docs/cudf/source/developer_guide/library_design.md:345`).
  Counterexample: create, `interface`, copy, the third party writes.
- `__cuda_array_interface__` of a column with an offset makes the sliced data the
  base and keeps the offset, which then points past the end. Counterexample:
  create, slice from one, `interface`. `ColumnsFitTheirBase` is false of programs
  with both.
- A slice of a column whose owner is exposed shares the exposed memory
  (`CopyBuffer` makes a deep copy of it, `GetItem` does not), so a third party's
  write reaches the slice. The user guide says "there is no longer a concept of
  views when slicing or indexing"
  (`docs/cudf/source/user_guide/copy-on-write.md:91`).
- `data_array_view(mode="write")` moves the cached `_data` to a copy when
  `base_data` counts as another slice. What is then written through `.values` is
  seen by `values_host` and not by libcudf: `DataIsCurrent` is false of programs
  with `"values"`. Counterexample: create a column, call `values`, let the third
  party write.
- A buffer that moved to a copy stays in the weak set of the owner it left, so
  that owner's last slice is copied once without need. The count errs on the
  safe side, which is `Tracked`.

## 5. The DEFLATE kernel

`GpuInflate` models a thread block that decompresses one stream. Thread 0 of
warp 0 decodes (`dec`), warp 1 consumes (`con`), warp 2 prefetches (`pre`). A
step is one access to what the warps share, or one symbol, whose reads of the
ring are covered by the interleaving of whole symbols with whole fetches: a
decoder that reads some words before and some after a fetch reads each of them
either too early or too late, and both cases are behaviours of the model.

An input word is known by its address and the ring holds addresses, so that
`InputInOrder` can say that the bit buffer holds the words of its position. A
symbol is its number. How many bits a code takes is an input, from the sets
`LiteralBits`, `LengthBits`, `DistanceBits`, `ShortBits`.

| actions | code |
|---|---|
| `StartBatch` | the wait for 48 bits per symbol and an empty batch, the check for the end |
| `Literal`, `Length`, `Distance`, `EndOfBlock`, `BadCode` | one pass of the inner loop, with the short literal that may precede a code |
| `Publish`, `Drain` | the batch's length and `s->cur`; the end mark and `pref.run = 0` |
| `Poll`, `Read`, `Write` | `process_symbols` |
| `Look`, `Fetch`, `PublishFetch` | `prefetch_warp` |
| `CodedBlock`, `StoredBlock`, `BadBlock` | the loop of `inflate_kernel` over blocks, with its barriers |

*Bounds.* Batches of three symbols (two passes of the inner loop, which adds one
or two symbols each time), two batches, a ring of 32 bytes filled by 8, a stream
of 28 bytes: the ring wraps, both batches fill up, and each warp gets to wait for
each other one. Two blocks, so that the second finds the first one's leftovers.
The code's bits are multiples of eight after a header of three, which keeps the
number of bit positions small; the largest total of a batch is the largest that
the wait covers. `PrefetchSize - ChunkSize - 4` is at least the wait's margin, as
with the code's constants (380 and 192).

*View.* `UpToCount` counts symbols from the last one written and forgets the
remains in batches that are not ready; neither guards nor properties see more.

*Fairness.* Weak fairness of each warp. A busy wait on another warp is only right
if the other makes progress, which CUDA guarantees for warps of a resident block.
Deadlock is checked; a finished kernel stutters (`Terminated`).

Worth knowing: the comment at `log2_prefetch_size` (line 98) asks for at least
`LOG2_BATCH_SIZE+3`, that is 8. With 8 the prefetcher may only get 124 bytes
ahead while the decoder waits for 192, and both wait for ever; the value is 9.

The comment at the wait says that 48 bits per symbol are the worst case. The decoder
also holds the next word, so that the last refill of a batch of 48-bit symbols may
read the word at `cur + 192`, the first that was not waited for: 31 such symbols from bit
31 refill 47 times. It takes codes of maximal length throughout and a prefetcher that
stays exactly 192 bytes ahead. Up to 46 bits per symbol the input is safe (section 10);
the instance (24 bits, batches of 3) is as close to the bound as whole bytes allow.

## 6. Chunked producers

Three parts of libcudf hand out a long result piece by piece. `PieceStream` is what
they promise alike: pieces follow each other without gap or overlap, empty ones only
at the end, and the producer may give up but skips nothing. `ParquetChunks`,
`OrcChunks` and `ContiguousSplit` are the three, and each implements `PieceStream`. `OrcChunks` has
a run and proofs of its own; `ChunkedOutput` puts the other two side by side (`kind` says
which one a behaviour is about). All are sequential: a program calls, the
producer answers. What is hard is the state between calls, so each module has the
variables `request` (the file or table and the options), `reader` (that state), `returned`
(the pieces so far) and `calls` (whether the producer is open, done or failed),
and one action per call of the interface. What a call computes is a chain of operators named for the
functions of the source.

| module | actions | code |
|---|---|---|
| `ParquetChunks` | `HasNext`, `ReadChunk` | `reader_impl::has_next`, `read_chunk` with `prepare_data`, `handle_chunking`, `setup_next_pass`, `setup_next_subpass`, `preprocess_subpass_pages`, `compute_output_chunks_for_subpass`, `calculate_output_num_rows_per_source` |
| `OrcChunks` | `HasNext`, `ReadChunk` | the same two with `select_stripes`, `preprocess_file`, `load_next_stripe_data`, `decompress_and_decode_stripes`, `find_splits` |
| `ContiguousSplit` | `Create`, `SplitAll`, `NextChunk`, `End` | `contiguous_split_state`, `contiguous_split`, `contiguous_split_chunk`; the kernels as functions on buffers |

Pages of a Parquet list column know how many rows start in them only once they are
decompressed, so the reader plans with an estimate; both numbers are in the model,
and so is the row that goes on in the next page. What a read past an array
returns is the request's `junk`; `AccessesStayInside` says that there is none.
Of an ORC decode that does not find its stripe loaded, `StripesAreLoaded` says it.

*Bounds.* Parquet: two row groups of four rows from two sources, a flat and a list
column in either order, pages of every small shape for the first group; limits on reads that make a
subpass of nearly every page, that fit a group, and that fit both. ORC: three
stripes of four shapes, or eight short ones, or two or three of which one is empty; picked in file
order, out of order or twice, or skipped; limits on output, on input, on both. `ContiguousSplit`: nested tables
(strings, lists of lists, structs of lists, empty columns as `empty_like` makes
them), every cut into up to three partitions, user buffers that hold one
batch, some, all. Masks have two rows in a word and batches eight bytes, so that words and batches
are crossed where 32 rows and a megabyte would be. `MaxEmpty` bounds the empty tables that a
program takes before it stops. Skipping rows is left out for chunked Parquet reads,
as the tests do (`cpp/tests/io/parquet_chunked_reader_test.cu`, issue 16186), since it
is known not to work.

*Deadlock and fairness.* A program may stop reading, so the configuration says
`CHECK_DEADLOCK FALSE` and no fairness is assumed. That a producer does not go on
for ever is `EndIsSeen`, an invariant: once everything is given, it says so.

`ContiguousSplit` walks nested columns by a recursive operator, which rules out
theorems about it; the Parquet reader is left to TLC as well.

Worth knowing, from modelling; the named formulas are in the modules and are not
invariants:

- *Parquet.* `preprocess_subpass_pages` compares a row number of the file
  (`max_col_row`) with one relative to `skip_rows` (`last_pass_row`).
  `calculate_output_num_rows_per_source` mixes the two as well and, with skipped
  rows and two sources, leaves the array. A subpass of pages
  of one long list throws "Unexpected short subpass" (`SubpassIsLongEnough`):
  `find_next_split` does count two rows, but by the estimate, and a page that
  continues a row may begin none. Counterexample: an input limit of one page, and a list
  column whose pages begin one row, none and three.
- *ORC.* `find_splits` merges a last range of at most 15% with the one before it,
  also when the split was made because a table cannot have more rows; decoding then
  throws, although a comment says that this should never happen
  (`reader_impl_decode.cu:703`; `OverflowNeverHappens`): seven stripes of a row
  each and one more, with room for seven rows in a table, are enough. With a limit on input,
  `max_uncomp_block_size` is zero when it is used (`BlockBoundIsTrue`). A stripe
  without rows that is picked last may make `has_next` true for ever (`HasNextIsTrue`; a stripe of one row and then an empty one, with an
  input limit of four bytes):
  nothing remains to read, so its load is never done, and a load is what moves the cursor. With
  rows in the last stripe that does not happen (`EndIsSeen`); without picking, `select_stripes` takes
  no stripe behind the last row wanted.
  `segmented_row_bit_count` counts bits in 32-bit integers.
- *contiguous_split.* `chunked_pack` takes the null counts of children from the
  source columns, also when a sliced parent means that only some of their rows are packed
  (`contiguous_split.cu:756`; `PackCountsNulls`). `contiguous_split_chunk` returns
  its bytes as a `size_type`.

## 7. Multibyte split

`SplitScan` is one call of `multibyte_split`. The host reads the text chunk by
chunk, from memory or from a block-gzipped file (`BgzipReader`), and runs a
kernel on each chunk; a thread block takes a tile. What a block must know of the text before
it (how much of a delimiter has been seen, how many delimiters were found) comes from two
look-back scans (`LookBack`, instantiated twice), whose rings of tile states go
on from one kernel to the next. Offsets and characters go to growing lists of
vectors (`OutputBuilder`).

| actions | code |
|---|---|
| `ReturnAtOnce`, `Begin`, `Fails` | the checks at the head of the call, `skip_bytes`, the first offset |
| `Launch`, `Collect`, `Output`, `Copy`, `Column`, `Return` | the host's loop: `get_next_chunk`, the init and main kernels, `next_output`, `get_inclusive_prefix`, `advance_output`, the copy of characters, the strings column |
| `ScanStates`, `ScanCounts`, `LookBackStates`, `LookBackCounts` (all in `Block`) | `multibyte_split_kernel`, by block; `LookBack`: `Call`, `Publish`, `Poll`, `Read`, `Store`, `Announce` |

A step of a look-back is one access to global memory; blocks interleave at each. A
value is read after its status by a load that depends on the branch, from the second-level
cache, where it was stored before the status; orders that the GPU's memory model allows
beyond that are not modelled. Blocks are dispatched in order, at most
`resident` at a time, as the code relies on ("in order" is how CUDA devices dispatch; the code spins
otherwise for ever). `get_inclusive_prefix` synchronises the host, so two kernels never
overlap.

*Bounds.* Two characters to a thread, two threads to a tile, three tiles to a chunk, rings with
seven slots; texts of up to 40 characters, so that the ring is used again; delimiters that overlap
themselves, cross threads, tiles and chunks, or nearly occur; ranges that begin and end
anywhere in relation to them; files of one to six blocks, empty ones among them. Three
resident blocks for whole texts, one for the many ranges, where the order of
blocks plays no part. What uninitialised registers past the end of a chunk hold
is `junk`; uninitialised memory holds `Garbage`.

*Fairness.* Weak fairness of `Next`: the device runs what it can. The call
returns, so the configuration says `CHECK_DEADLOCK FALSE`; that it always does,
whatever blocks wait for, is `SplitReturns`.

Worth knowing: the header's example says that splitting all of
`"abc..def..ghi..jkl.."` returns a fifth, empty row
(`cpp/include/cudf/io/text/multibyte_split.hpp`); the code returns four.

## 8. Java buffers

`SharedMemory` is the promise: native memory that references share is freed
once, and not while anyone has a reference (`held`), unless the virtual machine exits.
`MemoryBuffers` is the code: objects (buffers, slices, columns) with their
counts, and cleaners that own native memory or references to other objects. The mapping
takes memory to be held while the program refers to an object whose data lie in it.

| variable | code |
|---|---|
| `object` | `refCount`, the cleaner's address or handle (`native`), its `parent` or `toClose` (`owning`), whose memory the data lie in |
| `memory`, `failed` | native memory; what a native call failed to free |
| `references` | what the program holds and has not given up |
| `monitor`, `cleanerMonitor`, `stack` | `synchronized` methods of objects and cleaners, each thread's nested calls of `close` and `clean` |
| `all`, `collected`, `gone` | `MemoryCleaner.all` and its reference queue; collected objects |
| `exit`, `rmm` | the shutdown hook, `Rmm.shutdown` |

| actions | code |
|---|---|
| `Allocate`, `Slice`, `ColumnOver`, `ColumnOf`, `IncRefCount`, `Forget`, `Close` | calls of the program (`Call`) |
| `EnterClose`, `EnterClean`, `FreeNative`, `FreeFails`, `CloseParent`, `Disown`, `Leave` | `close`, `clean`, `cleanImpl`, with the exception's way out (`Step`) |
| `Collect`, `Sweep` | the garbage collector; the cleaner thread |
| `Exit`, `CleanAtExit` | the hook of `ai.rapids.refcount.debug` |
| `Shutdown`, `LookAt`, `TearDown` | the last look of `Rmm.shutdown` for blockers |

A step lies between two points where another thread may act: a monitor, a native
call, a field read without a monitor.

*Modes.* An instance checks five kinds of program: one user with three objects (a slice of a
slice, a column over two buffers); two users racing over two objects
with mapped files; with a native call that fails; with the debug hook; with
`Rmm.shutdown`. `MaxRefs` bounds the references counted when a
program takes another.

*Fairness.* Weak fairness of each thread, of the collector as a whole and of the cleaner
thread's loop. That Java collects what nobody refers to some time is an
assumption; the code's claim to free leaked memory rests on it too.
`EverythingIsFreed` excepts what a native call failed to free, references still
held and the virtual machine's exit. A program may stop calling:
`CHECK_DEADLOCK FALSE`.

*Assumed.* No thread allocates while `Rmm.shutdown` takes its last look (the code calls it
best effort). A native call that fails does so before it frees anything, as when
`auto_set_device` throws.

Worth knowing: `MmapCleaner.cleanImpl` is not synchronised
(`HostMemoryBuffer.java:103`), unlike its siblings: in debug mode the hook and a
`close` may both unmap. The modes that TLC checks have no mapped files together with the
debug hook, and the theorem has that as its hypothesis, for this reason. A second `close` reports a count of −1 to the event
handler, whose documentation says that the last call has 0.

## 9. What the checks show

Passing runs:

| run | instance | states | what it shows |
|---|---|---|---|
| `spill_race` | two threads, two buffers, room for one; accesses, views, frames, nested contexts | 201 k | pointers stay valid, what is pinned or exposed is on the device, moves exclude each other, locks come back, spilling is invisible (`ImplementsStore`), exposure is for good, content is lost only as `Lose` describes |
| `spill_copy` | deep copies against spills and accesses of their source, under fairness | 111 k | copies are exact although `is_spilled` is read without the lock; every call returns, so there is neither deadlock nor endless mutual eviction |
| `spill_alone` | one thread, three buffers of unequal size, a device limit, every call | 172 k | MemoryError only when nothing spillable is left; least recently used first; the limit is kept. With more threads a lock may hide a buffer from the scan, so these hold for one thread only |
| `cow_share` | two columns of three elements; copies, slices of slices, cached data, writes; an adopted array | 17 k | columns behave as values (`ImplementsValues`), caches agree with the base, columns lie inside it, no live slice is uncounted |
| `cow_lend` | one element, two arrays, every way to hand memory out | 10 k | at the moment memory is handed out no other column is in it |
| `inflate_ring` | three warps, two blocks | 543 k | input in order, output in order and complete, every block ends |
| `chunked_output` | Parquet files, tables to pack, under every mix of limits | 22 k | pieces follow each other and none is skipped (`ImplementsStream`); row numbers and rows per source are true, packed rows come back from unpacking, limits are kept where they can be (`ChunksAreTrue`); no array is left; the end is seen |
| `orc_chunks` | ORC files of up to eight stripes, some empty, picked or skipped, under every mix of limits | 11 k | each row comes out once and in order (`ImplementsStream`); every decode finds its stripes loaded; ranges keep to their limits where they can; the end is seen |
| `split_scan` | texts, delimiters that overlap themselves, byte ranges, two tiles in flight | 46 k | every look-back adds up to the true prefix; the rows are those that begin in the range; the call returns |
| `java_memory` | a program that slices, makes columns and leaks; cleaner, collector, shutdown hook | 227 k | an allocation is freed once and not while anything lives over it (`ImplementsSharedMemory`); shutdown leaves nothing behind that the program closed; under fairness everything is freed |

Every property is also run against a mutated definition (`mutants` in
`PROJECT.json`; the mutated forms stand before the originals in the modules): a
forgotten condition, a reset too early, a swapped order. TLC finds each of them.

Violation runs, each a disagreement between the code and what a comment, document
or test says:

- `cow_dangling`: `__cuda_array_interface__` a second time moves the column to new
  memory and frees what the first array points to.
- `parquet_empty`: with `num_rows` and a limit on input, a list column whose
  last page was estimated too high makes the next subpass start on pages
  already returned. It has no row of its own, and `read_chunk` returns empty tables
  while `has_next` says yes.

Further disagreements that need no run of their own are listed under "Worth
knowing" in sections 3 to 8.

## 10. What is proved

TLAPS checks all theorems and lemmas, for all values of the constants. The assumptions are
named in the modules: sizes are natural numbers and buffers finitely many
(`SizesAreNat`), the device limit an integer or `None` (`LimitIsIntOrNone`), the identities of different kinds of things differ
(`NamesDiffer`, `NamesAreApart`, `NoneIsNoContent`), bounds are natural numbers, `Fresh` has
sequences of the right length; of the kernel, that sizes are positive, the ring and
its chunks are whole words, and a batch holds two symbols (`SizesFit`), and that codes
have the lengths of the format (`BitsFit`); of the Java buffers, that the cleaner thread and the hook
are no users and the users finitely many (`ThreadsAssumption`), that bounds are natural
numbers (`BoundsAssumption`) and modes have the right form (`ModesAssumption`); of the split,
that sizes are positive and texts and delimiters sequences (`SizesAssumption`, `RequestsAssumption`); of ORC, that stripes have sizes, the stripes asked
for are those of the file, and a segment has rows (`RequestsAreValid`). Nothing is assumed about how many
threads, buffers, columns, calls, batches or blocks there are.

**Spilling** (`SpillManagerProofs`). `InvariantHolds` is the inductive invariant
`IInv` of `SpillProperties`; from it follow `TypesAreKept`, `PointersStayValid`,
`UnspillableStaysOnDevice`, `MovesExclude`, `LocksReturn`, `ExposureStays`.
`PointersValid` alone is not inductive: that an eviction does not take a pinned
block away needs that the evicting thread still owns the lock under which it
found the buffer spillable, and that the pinning thread needs that lock too. So
`IInv` says, besides the types,

- of each buffer: its lock is owned once, by a thread that is in a `with
  self.lock` of it or evicting it (`LockInv`); a pinned or exposed buffer is on
  the device, and whoever holds a pointer keeps a pin (`BufferInv`);
- of each thread: what its call has found out about its argument under the lock
  still holds (`ArgInv`); so too for the buffer it is evicting (`VictimInv`) and
  for the new buffer that it is making (`DstInv`); and where a call stands
  agrees with how it was entered (`PlaceInv`).

The proof has one lemma per action. The delicate case is the allocation inside
`spill("gpu")`: the handler runs on the thread that owns the lock, and the
buffer escapes it only since its type is still `"cpu"`.

The policy of the manager, `FailsOnlyWhenNothingIsLeft`, `EvictsLeastRecentlyUsed` and
`LimitIsKept`, holds when no other thread hides a buffer behind its lock and no frame is dropped
while the manager scans, which would make a buffer spillable that the scan has passed. That is
the hypothesis `Alone` of `MemoryErrorMeansNothingLeft`, `EvictionsGoByAge` and `LimitsAreKept`,
and what the run `spill_alone` checks; more threads may break each of the three. Their
invariant `EvictionInv` says that the manager manages only buffers with bytes (so a scan that spilled
any has spilled more than nothing); that what is no longer in the snapshot cannot be evicted, unless
the scan has enough (`ScanInv`); and that the bytes over the limit are no more than what was
asked for less what was spilled (`LimitInv`). For the last one the sum of the sizes has to change by the
victim's: `TotalSizeWithout`, from the definition of the fold, whose recursion has a solution on all sets
of finitely many buffers (`SumsExist`), one only (`SumsAgree`), whatever the order (`AnyOrder`).

**The store** (the second part of `SpillManagerProofs`). `SpillingIsInvisible` is the refinement: every step
of `SpillManager` is a step of `BufferStore` or a stutter. Beyond `IInv` the mapping needs
to know where the bytes are, which `StoreInv` says (`BytesAreSomewhere`): a device block is
that of a buffer whose type says so, or that the thread with its lock is about to settle;
the staged bytes of an eviction or a manual spill are still those on the device, since
nobody else writes to a buffer that is spillable and locked; after the
`pop("memoryview")` nothing but the staged bytes is left; and the source of a device copy
stays pinned until the copy is made. Each action's lemma then shows one of three things:
nothing is seen (calls, scans, locks), one buffer's bytes move and its content is the same
(`Moves`), or the store takes a step of its own (`Grants`, `Releases`, `NewContent`, a
write, a drop, a loss). `OnlyMemoryErrorLoses` and `CopiesKeepContent` come from the same
lemmas; that a `copyHost` call never allocates on the device is part of `StoreInv` for the
second.

**Copy-on-write** (`CopyOnWriteProofs`). `IInvHolds`, with `TrackedHolds` and
`ExposurePrivate`. `Tracked` says that the weak sets count no slice too few. The
invariant adds that columns and arrays refer to live buffers, that two columns
never share a buffer object (`Separate`), and that what nobody refers to is gone
(`Dead`). The argument goes along the heap: each operation keeps
`Sound(heap, live)` for a growing set of live buffers, new buffers going to
owners that nobody uses; `Commit` keeps it since it drops only dead buffers.
`ExposurePrivate` follows from what `make_single_owner_inplace` does in both its
cases: if it copies, the new owner has no other slice; if not, the old one had
none.

**Values** (the second part of `CopyOnWriteProofs`). `ValuesAreIndependent` is the refinement of
`ValueSemantics`, with `DataStaysCurrent`, `ColumnsFit` and `TypesStay` from the same
invariant. They hold of programs that are `Independent`: no `"interface"` and no `"values"`,
and no slices where memory is adopted, which are the programs of `cow_share`; section 4 has
the counterexamples for the others. (`cow_lend` checks `TypeOK` of programs that take
pointers but do not slice, which the theorem leaves out.) The invariant `VInv` adds to `IInv`
that what a column refers to lies in memory that exists, that a cached `_data` is the part of
the base that the column shows (`Fits`), and that adopted memory is exposed and in one column
at most (`Adopted`). A call works on a heap that agrees with the old one on all buffers that
are live and not its column's own (`OnlyOwn`): a new owner or slice changes nothing that is
there, and a write in place comes after `make_single_owner_inplace`, whose result shares its
owner with no live buffer (`MadeSingle`, from `SingleOwner`). Since what a column shows
depends on its own buffers and their owner's memory alone (`SameView`), all other columns keep
their values (`CallKeeps`), and each call maps to one step of the abstract specification.

**DEFLATE kernel** (`GpuInflateProofs`). Output first: `OutputStaysInOrder` and
`BlocksAreComplete` follow from `QueueInv`, which sees the queue as a ring. From the
consumer's batch up to the decoder's, and nowhere else, batches are full; the symbols
in them have consecutive numbers, from the one after the last taken to the last one
published (`QueueOK`). Two lemmas carry it, one for a batch added at the end (`Enqueue`)
and one for a batch taken from the front (`Dequeue`). The ring may be full or empty
when front and end are the same batch; its length word tells which.

Input: `InputStaysInOrder` rests on `RingInv`, the ring holds the words from the
position that the decoder published up to the prefetcher's, and on `Budget`, the
bits that the rest of the batch may take. The wait before a batch allows for 48 bits per
symbol, but the decoder also reads two words ahead, so the theorem has an assumption,
`NarrowCodes(w, l)`: a symbol takes at most `w` bits with `(48 - w) * BatchSize >= 64`.
With the code's batches of 32 that is 46 bits, of the 48 that the format allows; section 5
says what happens beyond.

**Look-back scan** (`LookBackProofs`). `LookBackSumsTheTiles`: whatever the number of slots
and of tiles, the order of the thread blocks and what lies in fresh memory, a block that
has looked back holds the sum of the tiles before it, and the host reads the sum of all of
them. The module runs `LookBack` on its own, kernel after
kernel, each with fewer tiles than the ring has slots. `Sums` is the hypothesis of the
theorem: the operation is associative, what each block will add is known from the start,
and `prefix` is its scan, the seed first; both are variables that never change, so that a
proof may put functions of a state in their place. No identity and no commutativity is assumed. The invariant says of the tiles of the kernel and of the one
before them, which have slots of their own (`TilesApart`), that what a status stands for
is there (`Holds`); of a block, that what it has added goes from where it looks up to its
own tile (`Looks`), and that the value behind a status once seen is still there when it is
read, even if the status has moved on. That last point is why the aggregate and the sum have
an array each. One lemma (`BlockStep`) says that others do not notice
the step of a block, since it writes to no slot but its own and to nothing that its
status stands for; the lemmas of the actions have only their own block to see to.

**Multibyte split** (`SplitScanProofs`). `SplitPrefixesAreTrue` and `SplitTypes` hold of every
call with a plain text (`~IsBgzip`), whatever the text, the delimiter, the range, the sizes of
threads, tiles, chunks and rings, and the number and order of the resident blocks. Two
assumptions on the constants: sizes are positive and a tile is a whole number of threads
(`SizesAssumption`); texts and delimiters are sequences, a delimiter not the empty one
(`RequestsAssumption`). The argument has three parts.

- *What is scanned.* `Across(p, q)` says of a text what the multistate of its bytes from `p` to `q`
  should be: the pairs of how much of the delimiter may have been there before and is there then.
  `Join` composes it (`AcrossJoins`) and `Transition` goes on by one byte (`TransitionAcross`), so
  the recursions over the bytes of a thread and the threads of a block compute it
  (`ThreadStateIs`, `BlockStateIs`), and a block that knows the prefix flags just the delimiters
  that end in its tile (`BlockMatchesAre`). Since `Accepts` bounds the repeated characters, an
  `Across` has seven pairs at most (`AcrossIsSmall`): of the pairs, all but `<<0, 0>>` end with the same character.
- *The scans.* With these aggregates, and with the numbers of delimiters for the second scan, the
  hypothesis `Sums` of the look-back scan holds (`StateSums`, `CountSums`), and every step of
  `SplitScan` is a step of `LookBackProofs` or a stutter. So its invariant is part of
  `SplitInv`, once for each scan.
- *The host.* `SplitInv` says further that the chunk is the part of the text that begins at its
  first tile (`IsChunk`), what each block has found out (`TileInv`), and that as long as the last
  row was not found all offsets found before a kernel were kept (`RowsInv`). So what a kernel writes
  follows on what is there, and since it finds no more delimiters than its tiles have bytes, there
  is room (`NextOutputMakesRoom`, `RoomHasPlace`): the span that a kernel writes to lies in the last
  vector, or in the one before it and an empty last one that has room for all by itself.

**The rows** (`SplitRowsProofs`). `SplitRowsAreExact`, under the same hypothesis and assumptions:
when the call has returned, the rows are those that begin in the range, one for each, whole and in
order. `SplitTypeOK` and `PrefixesAreTrue` are not enough for it, since they say nothing of what
the builders hold. The invariant `ExactInv` does, beside `SplitInv`; it has four parts.

- *The text read.* It was read up to `chunkOffset`, which is no further than the next tile begins;
  an empty chunk means that there is no more (`ReadInv`).
- *The offsets.* With `Number(p)` the number of delimiters found up to `p`, the `i`-th offset is where
  the one of number `i` ends (`IsNth`): none is missing and none is out of order. All lie in the
  range but the last when the last row was found, and the first one is where the first row begins
  (`OffsetsAre`).
- *The kernel's writes.* A block that is done has written the offsets of its numbers, though those
  of an earlier tile may still be missing (`WrittenInv`). Two numbers never go to the same place
  (`PlacesApart`), so a block does not disturb another's; when all are done, the numbers are there
  without a gap (`AllWritten`), and `Advanced` makes them part of what is gathered from the vectors,
  of which there may be two (`AdvancedGathers`).
- *The characters.* Those gathered are the content from the first row on, up to where it was read
  or the last row ends (`CharsAre`).

At the end (`ReturnFinds`, `Lists`) the offsets are all ends of delimiters that matter: what reading a
delimiter's length before the range is for, and why a delimiter that begins before it counts
(`EndsAreFound`). The places of the rows are then 0 if the range begins there, the offsets,
and the end of the text if the last row has no delimiter (`Places`); neighbours bound the rows
(`ArePlaces`, `RowPlaces`), and since the places are in order, the rows are numbered as `RowsAreExact`
numbers them (`Listed`). The cases that return no rows at once have none to return (`NoRows`).

Recursive functions over `Nat` are met by the least number at which two of them would differ
(`ALeast`, `Stepwise`), and folds over sets by the least number of elements, since the library's
induction cannot be instantiated here.

**Java buffers** (`MemoryBuffersProofs`). `MemTypes`, `CleanShutdown` and the refinement
`BuffersShareMemory` hold for any number of threads, objects and references. The refinement has a
hypothesis on the modes: in debug mode, in which the exit hook cleans, no file is mapped
(section 8 says what happens otherwise). The inductive invariant `Inv` says, besides the types,

- of each object: it is made of older ones (`WellMade`), its cleaner knows its native memory
  until that is freed or could not be, and `MemoryCleaner.all` knows the cleaner as long as
  something is left to do (`Accounted`);
- of each thread: its nested calls go from an object to older ones (`Nested`), what a call has
  seen under its monitors still holds (`FrameOK`), and whoever is in a monitor has a call that
  says so (`Entered`);
- of each count: it is at least the number of references, owners and threads about to close
  the object (`Counting`); what was collected has none of them (`Unreferenced`);
- before the virtual machine exits nobody cleans what has a reference or an owner (`Spared`);
  `Rmm.shutdown` has overlooked nothing (`Looked`).

`Counting` is an inequality because a leaked reference is counted for ever. For the
refinement, memory that a call is about to free must have no holder. Were there one, it
would be alive, and so by `Spared` still own its parents, which are then alive too; of
all living objects with data in that memory the least can only be the one that owns it
(`BackingUntouched`), and nobody cleans that.

**ORC chunks** (`OrcChunksProofs`). `OrcImplementsStream` is the refinement of `PieceStream`: for any
stripes, sizes, limits, granularity, skipped rows and picked stripes, the rows asked for are
returned once and in order. `OrcLoads` (with `OrcTypes`), `OrcLimits` and `OrcEnds` state the run's
invariants, the last for all but empty stripes picked at the end, where it is false. What the code computes in
loops are recursive functions on `0 .. n`, of which `LoopsRun` shows that they exist and `Stepwise` what
they keep. The argument goes from the inside out.

- *Searches and splits.* A binary search stays in its range, sorted or not, and passes only elements
  below the limit where they ascend (`SearchFinds`). So each pass of `find_splits` takes at least one
  position more (`RoundReaches`), and several only if they fit (`RoundFits`); its ranges begin at zero,
  follow each other and end with the total (`SplitsTile`), also after the last two are merged
  (`MergeTiles`). Size differences that wrap around do no harm: they lie before the position from which
  the search begins, so the proof needs nothing of what they wrap to.
- *The selection.* The stripes chosen hold the rows asked for, and the last of them begins before
  those end (`SelectionIs`): the first is what lets every decode find rows, the second what
  lets the last load be reached before all rows are read.
- *The reader.* `Placed` says of a reader that has been prepared that the load ranges tile the stripes
  selected, the decode ranges tile the last load, the output ranges tile the decoded table,
  and each list keeps to its limit; that a stripe still to be decoded is in the buffer of its
  number less that of the load's first (`RawIs`); and that the rows skipped and read so far
  end where the next decode begins (`RowsAre`). `StartPlaced`, `LoadPlaced`, `DecodePlaced`
  and `OutputPlaced` show that each step keeps it. A decode that would hold more rows than a column may throws
  (section 6 says when), and the call fails: the stream ends there, and skips nothing.
- *The stream.* `OrcInv` adds that what was given ends where the reader's next row begins (`GivenBy`).
  `has_next` and `read_chunk` run the same `prepare_data`, so either may be called any number of
  times: only the output cursor gives anything out, and nothing empty before the end.

**Only model-checked**: `ChunkedOutput`, that is the Parquet reader and `contiguous_split` with the refinement
`ImplementsStream`, and what is said of multibyte split of
block-gzipped files, whose reader `MCSplitScan` checks against `Content`. Of these `ContiguousSplit` uses a recursive operator, which
rules out theorems about it and about `ChunkedOutput`. Liveness (`CallsReturn`, `BlocksEnd`,
`SplitReturns`, `EverythingIsFreed`) is out of the prover's reach.

## 11. What is not modelled

- *Spilling:* statistics, the order in which the weak dictionary forgets
  buffers, buffers that are slices of an owner, replacing the manager at run
  time.
- *Copy-on-write:* null masks, children, categoricals, the mode without
  copy-on-write, its combination with spilling, adoption of an array over a
  column's own memory.
- *DEFLATE:* headers and Huffman tables, what symbols say and how matches are
  copied, the output limit. The barriers of the block loop are one rendezvous;
  threads read `err` after a barrier while thread 0 may set it for the next
  block (`gpuinflate.cu:1066`), and what a barrier does when some threads have
  left is the hardware's affair.
- *Parquet:* filters, page indexes, dictionary pages, struct columns, sizes of scratch
  memory, the decoding of values. *ORC:* several sources, nested levels, the mapping of
  compressed blocks, the decoding of streams. *contiguous_split:* dictionary columns, which
  the code refuses; element widths other than one.
- *Multibyte split:* the reader of datasources, the memory order of the GPU
  beyond one access after the other, I/O errors.
- *Java buffers:* event handlers, the pinned pool and other host allocators, host
  columns, scalars and hash joins (their cleaners have the same form), the waiting
  loop of `Rmm.shutdown`, the files that `MmapCleaner` unmaps.
- *All other components* of section 1: cudf.pandas, pinned memory, RMM events, Snappy,
  Kafka, JSON and regular expressions for want of time, in the order of the plan; the
  data-parallel ones, which are most of libcudf's lines, because they keep no state:
  what could go wrong in them is arithmetic per element, and a model of that would be
  their code again. Bindings and adapters forward to what is modelled.

To run: `tlc -config MCSpillRace.cfg MCSpillManager.tla` and so on with the pairs
in `PROJECT.json`; `tlapm SpillManagerProofs.tla`, `tlapm CopyOnWriteProofs.tla`, `tlapm GpuInflateProofs.tla`, `tlapm LookBackProofs.tla`,
`tlapm SplitScanProofs.tla`, `tlapm SplitRowsProofs.tla`, `tlapm MemoryBuffersProofs.tla`,
`tlapm OrcChunksProofs.tla`. Each takes minutes.
