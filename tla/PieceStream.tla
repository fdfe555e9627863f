---------------------------- MODULE PieceStream ----------------------------
(***************************************************************************)
(* What everything in libcudf that hands out a long result in pieces         *)
(* promises (the chunked readers of Parquet and ORC, chunked_pack): the      *)
(* pieces follow each other without a gap or an overlap and end where the    *)
(* result ends.  An empty piece is given only when there is nothing left.    *)
(* The producer may give up with an error, but never skips anything.         *)
(***************************************************************************)
EXTENDS Integers, Sequences

VARIABLES total,   \* the length of the whole result, counted in rows or bytes
          pieces,  \* the pieces given so far, in order: [start, length]
          status   \* "new", "open", "done" or "failed"
vars == <<total, pieces, status>>

Given == IF pieces = <<>> THEN 0 ELSE LET p == pieces[Len(pieces)] IN p.start + p.length

Init ==
  /\ total \in Nat /\ pieces = <<>>
  /\ status \in {"new", "open"} /\ (status = "new" => total = 0)

\* The length may be worked out only once the producer is there.
Begin == status = "new" /\ status' = "open" /\ total' \in Nat /\ UNCHANGED pieces

Give(n) ==
  /\ status = "open"
  /\ pieces' = Append(pieces, [start |-> Given, length |-> n])
  /\ Given + n <= total /\ (n = 0 => Given = total)
  /\ UNCHANGED <<total, status>>

\* No more pieces: everything was given, or the producer failed.
Finish ==
  /\ status = "open"
  /\ \/ Given = total /\ status' = "done"
     \/ status' = "failed"
  /\ UNCHANGED <<total, pieces>>

Next == Begin \/ Finish \/ \E n \in 0 .. total : Give(n)
Spec == Init /\ [][Next]_vars
=============================================================================
