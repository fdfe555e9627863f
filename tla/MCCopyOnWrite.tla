--------------------------- MODULE MCCopyOnWrite ---------------------------
(***************************************************************************)
(* Small instances of CopyOnWrite: two columns of up to three elements and up *)
(* to two arrays.  There are more identities of buffers and owners than can  *)
(* be in use, so Room never stops a call.                                   *)
(***************************************************************************)
EXTENDS CopyOnWrite, TLC

CONSTANTS c1, c2, c3, b1, b2, b3, b4, b5, b6, b7, o1, o2, o3, o4, o5, o6, o7, x1, x2

AllAlike == {[k \in 0 .. Length - 1 |-> 0]}
Distinct == {[k \in 0 .. Length - 1 |-> k]}
Alternating == {[k \in 0 .. Length - 1 |-> k % 2]}

ColumnsAlike == Permutations(Columns)

\* The state up to the identities of buffers and owners: what every place that
\* refers to a buffer or an allocation sees there, and which places share it.
Places == (Holders \X {"base", "data"}) \cup (Arrays \X {"kept", "lent"})
At(p) == CASE p[2] = "base" -> column[p[1]].base
           [] p[2] = "data" -> column[p[1]].data
           [] p[2] = "kept" /\ array[p[1]] # None -> array[p[1]].keeps
           [] OTHER -> None
OwnerAt(p) == CASE p[2] = "lent" /\ array[p[1]] # None -> array[p[1]].owner
                [] At(p) \in Buffers -> buffer[At(p)].owner
                [] OTHER -> None
SeenAt(p) ==
  LET b == At(p)
      o == OwnerAt(p)
  IN  IF o = None THEN None
      ELSE [same |-> {q \in Places : OwnerAt(q) = o},
            slices |-> {q \in Places : At(q) \in slices[o]},
            memory |-> memory[o], exposed |-> exposed[o],
            slice |-> IF b \in Buffers THEN <<buffer[b].offset, buffer[b].size>> ELSE <<>>]
\* Copies, slices and writes; or copies and writes next to a third party's.
Sharing == {"create", "copy", "slice", "read", "fill", "scatter"}
Adopting == {"copy", "fill", "adopt", "external", "copyDeep"}
SharingOrAdopting == {Sharing, Adopting}

UpToIdentity ==
  <<program, [c \in Holders |-> <<column[c].offset, column[c].size>>],
    [x \in Arrays |-> IF array[x] = None THEN None
                      ELSE <<array[x].offset, array[x].size, array[x].of,
                             array[x].keeps \in Columns, array[x].keeps \in Owners>>],
    [p \in Places |-> SeenAt(p)]>>
=============================================================================
