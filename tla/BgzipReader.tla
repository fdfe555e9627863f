----------------------------- MODULE BgzipReader -----------------------------
(***************************************************************************)
(* The source of multibyte_split that decompresses block-gzipped files        *)
(* (cpp/src/io/text/bgzip_data_chunk_source.cu).  It reads groups of whole     *)
(* blocks and keeps two: what a chunk needs may lie in both.                   *)
(*                                                                         *)
(* A file is [sizes, begin, end]: the decompressed sizes of its blocks and the *)
(* virtual offsets <<block, byte>> to read from and up to; the end's block may *)
(* lie past the file.  A decompressed byte is known by its position.           *)
(***************************************************************************)
EXTENDS Integers, Sequences

CONSTANT LoadSize  \* chunk_load_size

\* The decompressed bytes of the first n blocks.
BytesBefore(file, block) ==
  LET sum[i \in Nat] == IF i = 0 THEN 0 ELSE sum[i - 1] + file.sizes[i]
  IN  sum[block - 1]

\* decompression_blocks: where its bytes begin, how many may be read, read_pos.
NoBlocks == [start |-> 0, available |-> 0, pos |-> 0]
Remaining(group) == group.available - group.pos
Consumed(group, n) == [group EXCEPT !.pos = @ + n]
Bytes(group, n) == [i \in 1 .. n |-> group.start + group.pos + i]

\* At the end of the stream, or past the last block wanted.
AtEnd(file, next) == next > Len(file.sizes) \/ next > file.end[1]

\* read_next_compressed_chunk: blocks until there are `requested' bytes.
ReadNext(file, reader, requested) ==
  LET first == reader.next
      size(to) == BytesBefore(file, to + 1) - BytesBefore(file, first)
      enough(to) == size(to) >= requested \/ to = file.end[1] \/ to = Len(file.sizes)
      to == IF requested = 0 \/ AtEnd(file, first) THEN first - 1
            ELSE CHOOSE b \in first .. Len(file.sizes) :
                   enough(b) /\ \A c \in first .. b - 1 : ~enough(c)
      cut == IF to >= first /\ to = file.end[1] THEN file.sizes[to] - file.end[2] ELSE 0
  IN  [prev |-> reader.curr, next |-> to + 1,
       curr |-> [start |-> BytesBefore(file, first), available |-> size(to) - cut, pos |-> 0]]

NewReader(file) ==
  LET loaded == ReadNext(file, [prev |-> NoBlocks, curr |-> NoBlocks, next |-> file.begin[1]], LoadSize)
  IN  [loaded EXCEPT !.curr = Consumed(@, file.begin[2])]

\* skip_bytes: what the current blocks have and, if that is not enough, what the next have.
Consumable(group, n) == IF n < Remaining(group) THEN n ELSE Remaining(group)
SkipBytes(file, reader, n) ==
  LET skip[left \in Nat, next \in Nat] ==
        LET loaded == ReadNext(file, [prev |-> NoBlocks, curr |-> NoBlocks, next |-> next], LoadSize)
        IN  IF left > Remaining(loaded.curr) /\ ~AtEnd(file, loaded.next)
            THEN skip[left - Remaining(loaded.curr), loaded.next]
            ELSE [loaded EXCEPT !.curr = Consumed(@, Consumable(@, left))]
  IN  IF n <= Remaining(reader.curr) THEN [reader EXCEPT !.curr = Consumed(@, n)]
      ELSE skip[n - Remaining(reader.curr), reader.next]

\* get_next_chunk: the bytes of up to n, and the reader after it.
NextChunk(file, reader, n) ==
  IF n <= Remaining(reader.curr)
  THEN [bytes |-> Bytes(reader.curr, n), reader |-> [reader EXCEPT !.curr = Consumed(@, n)]]
  ELSE LET next == ReadNext(file, reader, n)
           rest == Remaining(next.prev)
           more == IF n - rest < Remaining(next.curr) THEN n - rest ELSE Remaining(next.curr)
       IN  [bytes |-> Bytes(next.prev, rest) \o Bytes(next.curr, more),
            reader |-> [next EXCEPT !.prev = Consumed(@, rest), !.curr = Consumed(@, more)]]
=============================================================================
