--------------------------- MODULE ValueSemantics ---------------------------
(***************************************************************************)
(* What copy-on-write promises the user of cuDF: every column has a value   *)
(* of its own, like a Python list.  A copy or a slice is a new value; a     *)
(* write changes the column it is made on and no other; a third party that  *)
(* was lent a column's memory may change that column and no other.          *)
(***************************************************************************)
EXTENDS Integers

CONSTANTS Columns, Values, Length, None

VARIABLES value,   \* the elements of each column, None: no such column
          lent     \* the columns in memory that third parties can write
vars == <<value, lent>>

Elements(n) == [0 .. n - 1 -> Values]
Of(c) == DOMAIN value[c]

Init == value = [c \in Columns |-> None] /\ lent = {}

Make(c, f) == /\ value[c] = None
              /\ value' = [value EXCEPT ![c] = f]

Create(c) == \E f \in Elements(Length) : Make(c, f) /\ lent' \in {lent, lent \cup {c}}

Copy(c, d) == value[c] # None /\ Make(d, value[c]) /\ UNCHANGED lent

Slice(c, d, i, j) ==
  /\ value[c] # None
  /\ {i, j - 1} \subseteq Of(c)
  /\ Make(d, [k \in 0 .. j - i - 1 |-> value[c][i + k]])
  /\ UNCHANGED lent

Assign(c, i, j, v) ==
  /\ value[c] # None
  /\ {i, j - 1} \subseteq Of(c)
  /\ value' = [value EXCEPT ![c] =
                 [k \in Of(c) |-> IF k \in i .. j - 1 THEN v ELSE value[c][k]]]
  /\ lent' \in {lent, lent \ {c}}

Lend(c) == value[c] # None /\ lent' = lent \cup {c} /\ UNCHANGED value
Recover == lent' \in SUBSET lent /\ UNCHANGED value

ThirdParty ==
  /\ \A c \in Columns : IF c \in lent THEN value'[c] \in [Of(c) -> Values] ELSE value'[c] = value[c]
  /\ UNCHANGED lent

Drop(c) == /\ value' = [value EXCEPT ![c] = None]
           /\ lent' = lent \ {c}

Next ==
  \/ Recover \/ ThirdParty
  \/ \E c \in Columns :
       \/ Create(c) \/ Lend(c) \/ Drop(c)
       \/ \E d \in Columns :
            \/ Copy(c, d)
            \/ \E i, j \in 0 .. Length : Slice(c, d, i, j)
       \/ \E i, j \in 0 .. Length, v \in Values : Assign(c, i, j, v)

Spec == Init /\ [][Next]_vars
=============================================================================
