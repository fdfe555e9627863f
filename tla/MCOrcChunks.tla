---------------------------- MODULE MCOrcChunks ----------------------------
(***************************************************************************)
(* Files and options for OrcChunks.                                         *)
(***************************************************************************)
EXTENDS OrcChunks

\* The requests with these limits on output and on input.
Reads(files, picked, skip, num, chunkLimit, passLimit) ==
  [stripes : files, picked : picked, skip : skip, num : num, chunkLimit : chunkLimit,
   passLimit : passLimit, granularity : {2}]

Stripes == {[rows |-> 1, packed |-> 2, block |-> 7, out |-> 1], [rows |-> 3, packed |-> 2, block |-> 2, out |-> 1],
            [rows |-> 3, packed |-> 6, block |-> 7, out |-> 3], [rows |-> 1, packed |-> 6, block |-> 2, out |-> 3]}
ThreeStripes == [1 .. 3 -> Stripes]
Tiny == [rows |-> 1, packed |-> 2, block |-> 2, out |-> 1]
Empty == [rows |-> 0, packed |-> 2, block |-> 2, out |-> 0]
EightTiny == {[i \in 1 .. 8 |-> Tiny]}
WithEmpty == {<<Empty, Tiny>>, <<Tiny, Empty>>, <<Empty, Tiny, Tiny>>}
MCOrcRequests ==
  Reads(ThreeStripes, {<<>>}, {0, 2}, {2, 100}, {0, 4}, {0, 16})
    \cup Reads(EightTiny, {<<>>}, {0}, {100}, {3}, {60})
    \cup Reads(ThreeStripes, {<<3, 1>>, <<2, 2, 1>>}, {0}, {100}, {4}, {16})
    \cup Reads(WithEmpty, {<<>>}, {0, 1}, {1, 100}, {0, 4}, {0, 4, 16})
    \cup Reads(WithEmpty, {<<1, 2>>}, {0}, {100}, {0, 4}, {0, 4, 16})
=============================================================================
