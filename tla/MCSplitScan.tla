----------------------------- MODULE MCSplitScan -----------------------------
(***************************************************************************)
(* Texts, delimiters, ranges and files for SplitScan.  Character 0 is the     *)
(* one of no delimiter.                                                     *)
(***************************************************************************)
EXTENDS SplitScan, TLC

Call(text, delim, offset, size) ==
  [text |-> text, delim |-> delim, offset |-> offset, size |-> size, strip |-> FALSE,
   file |-> <<>>, resident |-> 1, junk |-> 1]
File(sizes, begin, end) == [sizes |-> sizes, begin |-> begin, end |-> end]

\* Delimiters that overlap themselves, cross threads, tiles and chunks, or nearly occur.
Ones(n) == [i \in 1 .. n |-> 1]
Mixed == <<1, 2, 1, 1, 2, 1, 1, 1, 2, 0, 1, 2, 1, 2, 1>>
Sparse == <<0, 0, 0, 0, 0, 0, 0, 0, 0, 0, 0, 1, 2, 1, 0>>

\* Three blocks at a time, over more tiles than the rings have slots.
Together ==
  {[Call(t \o Mixed, d, 0, 100) EXCEPT !.resident = 3] : t \in {Mixed, Sparse}, d \in {<<1>>, <<1, 1>>, <<1, 2, 1>>}}

EveryRange ==
  {[Call(t, d, o, n) EXCEPT !.strip = s] :
     t \in {Mixed, Sparse, SubSeq(Mixed, 1, 7)}, d \in {<<1>>, <<1, 1>>, <<1, 2, 1>>},
     o \in {0, 1, 6, 7, 12, 14}, n \in {0, 1, 6, 100}, s \in BOOLEAN}

Lengths ==
  {Call(Ones(n), d, 0, 100) : n \in {0, 1, 40}, d \in {<<1>>, <<1, 1>>}}
    \cup {Call(Ones(9), Ones(n), 0, 100) : n \in {6, 7}}

Files ==
  {[Call(Mixed, <<1, 2, 1>>, o, n) EXCEPT !.file = f] : o \in {0, 5, 9}, n \in {4, 100},
     f \in {File(s, b, e) : s \in {<<6, 9>>, <<3, 0, 4, 1, 7, 0>>}, b \in {<<1, 0>>, <<1, 2>>},
                            e \in {<<2, 3>>, <<9, 0>>}}}
  \cup {[Call(Mixed, <<1>>, 2, 100) EXCEPT !.file = File(<<15>>, <<1, 3>>, <<1, 9>>)]}

MCRequests == Together \cup EveryRange \cup Lengths \cup Files
=============================================================================
