------------------------------ MODULE LookBack ------------------------------
(***************************************************************************)
(* The single-pass scan across the thread blocks of a kernel: scan_tile_state *)
(* and scan_tile_state_callback of libcudf                                  *)
(* (cpp/include/cudf/io/text/detail/tile_state.hpp).  A block has a tile and  *)
(* the aggregate of it, and asks for the sum of everything before its tile.    *)
(* It publishes its aggregate and looks back over its predecessors, adding     *)
(* their aggregates, until it meets one that already knows its own sum.        *)
(* Tiles have slots in a ring; a slot is used again by a later tile.           *)
(*                                                                         *)
(* A step is one access to global memory.  A value is read after its status,   *)
(* with a load that depends on the branch on the status and goes to the second *)
(* level cache, where the other block has stored it before it set the status.  *)
(***************************************************************************)
EXTENDS Integers

CONSTANTS
  NumTiles,    \* slots of the ring
  Plus(_, _),  \* what is scanned: an associative operation
  Seed,        \* the sum of nothing
  Garbage      \* what uninitialized memory holds

VARIABLES
  status, partial, inclusive, \* the arrays of scan_tile_state, by slot
  frame                       \* the calls of the callback, by tile of the kernel that runs
scanVars == <<status, partial, inclusive, frame>>

Slots == 0 .. NumTiles - 1
Offset(tile) == (tile + NumTiles) % NumTiles
Idle == [pc |-> "idle", aggregate |-> Seed, at |-> 0, seen |-> "invalid", window |-> Seed]

\* A new state whose slots before tile 0 are out of bounds, but for the seed; what a status
\* in uninitialized memory says is the worst that it can say.
Init(outOfBounds) ==
  /\ status = [s \in Slots |-> IF s # Offset(-1) /\ s >= NumTiles - outOfBounds THEN "oob" ELSE "inclusive"]
  /\ inclusive = [s \in Slots |-> IF s = Offset(-1) THEN Seed ELSE Garbage]
  /\ partial = [s \in Slots |-> Garbage]
  /\ frame = <<>>

\* Mutant: one slot too many is reset.
ResetPredecessor(base, n) ==
  LET tiles == base .. base + n - 1
  IN  /\ status' = [s \in Slots |-> IF \E i \in (base - 1) .. base + n - 1 : s = Offset(i) THEN "invalid" ELSE status[s]]
      /\ frame' = [i \in tiles |-> Idle]
      /\ UNCHANGED <<partial, inclusive>>

\* The init kernel before a kernel of n blocks.
Reset(base, n) ==
  LET tiles == base .. base + n - 1
  IN  /\ status' = [s \in Slots |-> IF \E i \in tiles : s = Offset(i) THEN "invalid" ELSE status[s]]
      /\ frame' = [i \in tiles |-> Idle]
      /\ UNCHANGED <<partial, inclusive>>

\* The callback begins: set_partial_prefix stores the aggregate ...
Call(tile, aggregate) ==
  /\ frame[tile].pc = "idle"
  /\ partial' = [partial EXCEPT ![Offset(tile)] = aggregate]
  /\ frame' = [frame EXCEPT ![tile] = [Idle EXCEPT !.pc = "publish", !.aggregate = aggregate, !.at = tile - 1]]
  /\ UNCHANGED <<status, inclusive>>

\* ... and then its status.
Publish(tile) ==
  /\ frame[tile].pc = "publish"
  /\ status' = [status EXCEPT ![Offset(tile)] = "partial"]
  /\ frame' = [frame EXCEPT ![tile].pc = "poll"]
  /\ UNCHANGED <<partial, inclusive>>

\* get_prefix spins while the status is invalid.
Poll(tile) ==
  LET seen == status[Offset(frame[tile].at)]
  IN  /\ frame[tile].pc = "poll" /\ seen # "invalid"
      /\ frame' = [frame EXCEPT ![tile].pc = "read", ![tile].seen = seen]
      /\ UNCHANGED <<status, partial, inclusive>>

\* Mutant: what comes earlier is added behind what comes later.
ReadAppended(tile) ==
  LET f == frame[tile]
      value == IF f.seen = "partial" THEN partial[Offset(f.at)] ELSE inclusive[Offset(f.at)]
      sum == IF f.at = tile - 1 THEN value ELSE Plus(f.window, value)
  IN  /\ f.pc = "read"
      /\ frame' = [frame EXCEPT ![tile] =
           IF f.seen = "inclusive" THEN [f EXCEPT !.pc = "store", !.window = sum]
           ELSE [f EXCEPT !.pc = "poll", !.at = f.at - 1, !.window = sum]]
      /\ UNCHANGED <<status, partial, inclusive>>

\* get_prefix reads the value that the status it saw stands for; the loop ends at an inclusive one.
Read(tile) ==
  LET f == frame[tile]
      value == IF f.seen = "partial" THEN partial[Offset(f.at)] ELSE inclusive[Offset(f.at)]
      sum == IF f.at = tile - 1 THEN value ELSE Plus(value, f.window)
  IN  /\ f.pc = "read"
      /\ frame' = [frame EXCEPT ![tile] =
           IF f.seen = "inclusive" THEN [f EXCEPT !.pc = "store", !.window = sum]
           ELSE [f EXCEPT !.pc = "poll", !.at = f.at - 1, !.window = sum]]
      /\ UNCHANGED <<status, partial, inclusive>>

\* set_inclusive_prefix stores the sum ...
Store(tile) ==
  LET f == frame[tile]
  IN  /\ f.pc = "store"
      /\ inclusive' = [inclusive EXCEPT ![Offset(tile)] = Plus(f.window, f.aggregate)]
      /\ frame' = [frame EXCEPT ![tile].pc = "announce"]
      /\ UNCHANGED <<status, partial>>

\* ... and its status, and the callback returns what was before the tile.
Announce(tile) ==
  /\ frame[tile].pc = "announce"
  /\ status' = [status EXCEPT ![Offset(tile)] = "inclusive"]
  /\ frame' = [frame EXCEPT ![tile] = [Idle EXCEPT !.pc = "returned", !.window = frame[tile].window]]
  /\ UNCHANGED <<partial, inclusive>>

Step(tile) == Publish(tile) \/ Poll(tile) \/ Read(tile) \/ Store(tile) \/ Announce(tile)

Returned(tile) == frame[tile].pc = "returned"
ExclusivePrefix(tile) == frame[tile].window

\* get_inclusive_prefix, which the host calls when the kernel has ended.
InclusivePrefix(tile) == inclusive[Offset(tile)]

ScanTypeOK ==
  /\ status \in [Slots -> {"oob", "invalid", "partial", "inclusive"}]
  /\ DOMAIN partial = Slots /\ DOMAIN inclusive = Slots
  /\ \A tile \in DOMAIN frame : frame[tile].pc \in {"idle", "publish", "poll", "read", "store", "announce", "returned"}
=============================================================================
