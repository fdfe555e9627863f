---------------------------- MODULE OutputBuilder ----------------------------
(***************************************************************************)
(* output_builder of libcudf (cpp/src/io/utilities/output_builder.cuh): a      *)
(* growing list of device vectors.  Each time at most max elements are written  *)
(* behind those that are there, to the free end of one vector and, if that is    *)
(* too short, to the next one, and then some of them are kept.                  *)
(***************************************************************************)
EXTENDS Integers, Sequences

CONSTANTS MaxWrite, MaxGrowth  \* _max_write_size, _max_growth

Smaller(a, b) == IF a < b THEN a ELSE b

Vector(capacity) == [size |-> 0, elements |-> [i \in 1 .. capacity |-> 0]]
Capacity(v) == Len(v.elements)
Free(v) == Capacity(v) - v.size

NewBuilder == [size |-> 0, chunks |-> <<Vector(2 * MaxWrite)>>]

\* The vector of the first free element: the last, or the one before it if the last is empty.
FirstFree(b) ==
  LET n == Len(b.chunks) IN IF n > 1 /\ b.chunks[n].size = 0 THEN n - 1 ELSE n

\* next_output: makes room for MaxWrite elements.
NextOutput(b) ==
  LET n == Len(b.chunks)
  IN  IF Free(b.chunks[FirstFree(b)]) >= MaxWrite \/ FirstFree(b) < n THEN b
      ELSE [b EXCEPT !.chunks = Append(@, Vector(Smaller(MaxGrowth * MaxWrite, 2 * Capacity(b.chunks[n]))))]

\* Where element i of the split_device_span lies: <<vector, index>>.
Place(b, i) ==
  LET head == b.chunks[FirstFree(b)]
  IN  IF i < Free(head) THEN <<FirstFree(b), head.size + i + 1>>
      ELSE <<FirstFree(b) + 1, i - Free(head) + 1>>
HasPlace(b, i) == Place(b, i)[1] <= Len(b.chunks) /\ i < MaxWrite
ElementAt(b, i) == b.chunks[Place(b, i)[1]].elements[Place(b, i)[2]]

\* values[i] is written to element i of the span.
Written(b, values) ==
  LET elements(c) ==
        [k \in DOMAIN b.chunks[c].elements |->
           IF \E i \in DOMAIN values : Place(b, i) = <<c, k>>
           THEN values[CHOOSE i \in DOMAIN values : Place(b, i) = <<c, k>>]
           ELSE b.chunks[c].elements[k]]
  IN  [b EXCEPT !.chunks = [c \in DOMAIN @ |-> [@[c] EXCEPT !.elements = elements(c)]]]

\* advance_output keeps the first n elements.
Advanced(b, n) ==
  LET last == Len(b.chunks)
      grow(c, k) == [b.chunks[c] EXCEPT !.size = @ + k]
      inPrev == Smaller(n, Free(b.chunks[last - 1]))
  IN  [size |-> b.size + n,
       chunks |-> IF last < 2 THEN <<grow(1, n)>>
                  ELSE [b.chunks EXCEPT ![last - 1] = grow(last - 1, inPrev),
                                        ![last] = grow(last, n - inPrev)]]

FrontElement(b) == b.chunks[1].elements[1]
BackElement(b) ==
  LET v == b.chunks[FirstFree(b)] IN v.elements[v.size]

\* gather: all elements in one vector.
Gathered(b) ==
  LET first[c \in 0 .. Len(b.chunks)] ==
        IF c = 0 THEN <<>> ELSE first[c - 1] \o SubSeq(b.chunks[c].elements, 1, b.chunks[c].size)
  IN  first[Len(b.chunks)]
=============================================================================
