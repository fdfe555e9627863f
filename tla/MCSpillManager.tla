--------------------------- MODULE MCSpillManager ---------------------------
(* Small instances of SpillManager for TLC. *)
EXTENDS SpillProperties, TLC

CONSTANTS t1, t2, f1, b1, b2, b3, v1, v2

OneByteEach == [b \in Buffers |-> 1]
\* b3 is as large as the two others together.
OneIsLarge == [b \in Buffers |-> IF b = b3 THEN 2 ELSE 1]

Interchangeable == Permutations({t1, t2})
=============================================================================
