----------------------------- MODULE CopyOnWrite -----------------------------
(***************************************************************************)
(* cudf with the option "copy_on_write" on and no spill manager: columns    *)
(* (core/column/column.py) hold ExposureTrackedBuffers, slices of            *)
(* BufferOwners (core/buffer).  A column has its base_data and, once         *)
(* somebody asked for it, the cached slice _data; third parties hold         *)
(* arrays over the memory they got from __cuda_array_interface__.            *)
(*                                                                         *)
(* One action is one call of a single Python thread.  Reference counting is  *)
(* immediate: what nothing refers to is gone at the end of the call, from    *)
(* the weak sets too.  Elements are one byte; null masks and children are    *)
(* left out, they are copied and written by the same buffer code.            *)
(***************************************************************************)
EXTENDS Integers, FiniteSets

CONSTANTS Columns, Buffers, Owners, Arrays,  \* identities of the objects
          Values,   \* contents of an element
          Length,   \* elements of a column made from scratch
          Fresh,    \* what such a column may hold
          Programs, \* bound: sets of calls, of which a program makes those of one
          None

ASSUME LengthIsNat == Length \in Nat
BufferType == [owner : Owners, offset : Int, size : Int]
ColumnType == [base : Buffers, data : Buffers \cup {None}, offset : Int, size : Int]
ArrayType == [owner : Owners, offset : Int, size : Int,
              keeps : Columns \cup Buffers \cup Owners, of : Columns \cup {None}]

\* The identities are of different kinds, and None is nothing at all.
ASSUME NamesAreApart ==
  /\ Buffers \cap (Columns \cup Owners \cup {None}) = {}
  /\ None \notin BufferType \cup ColumnType \cup ArrayType
ASSUME NoneIsNoContent ==
  None \notin Columns \cup UNION {[0 .. n - 1 -> Values] : n \in 0 .. Length}
ASSUME BuffersAreFinite == IsFiniteSet(Buffers)
ASSUME FreshAreElements == Fresh \subseteq [0 .. Length - 1 -> Values]

VARIABLES
  column,   \* [base, data, offset, size]: ColumnBase, None: no such object
  buffer,   \* [owner, offset, size]: ExposureTrackedBuffer
  slices,   \* BufferOwner._slices
  exposed,  \* BufferOwner._exposed
  memory,   \* the elements of the owner's allocation, None when freed
  array,    \* [owner, offset, size, keeps, of]: an array of a third party
  program   \* the calls that are made

vars == <<column, buffer, slices, exposed, memory, array, program>>

(***************************************************************************)
(* The heap of owners and buffers, and what the buffer classes do to it.     *)
(***************************************************************************)
Heap == [buffer |-> buffer, slices |-> slices,
         exposed |-> exposed, memory |-> memory]

\* ExposureTrackedBuffer.__init__
AddSlice(h, b, o, offset, size) ==
  [buffer |-> [h.buffer EXCEPT ![b] = [owner |-> o, offset |-> offset, size |-> size]],
   slices |-> [h.slices EXCEPT ![o] = @ \cup {b}],
   exposed |-> h.exposed,
   memory |-> h.memory]

\* BufferOwner.__init__
AddOwner(h, o, elements, isExposed) ==
  [buffer |-> h.buffer,
   slices |-> [h.slices EXCEPT ![o] = {}],
   exposed |-> [h.exposed EXCEPT ![o] = isExposed],
   memory |-> [h.memory EXCEPT ![o] = elements]]

\* A new owner and a buffer over all of it.
NewBuffer(h, b, o, elements, isExposed, size) ==
  AddSlice(AddOwner(h, o, elements, isExposed), b, o, 0, size)

Content(h, b) ==
  [k \in 0 .. h.buffer[b].size - 1 |->
     h.memory[h.buffer[b].owner][h.buffer[b].offset + k]]

Shared(h, b) == Cardinality(h.slices[h.buffer[b].owner]) > 1

\* Mutant: the buffer does not join the slices of its new owner.
MakeSingleUntracked(h, b, o) ==
  IF Shared(h, b)
  THEN AddOwner(NewBuffer(h, b, o, Content(h, b), FALSE, h.buffer[b].size),
                o, Content(h, b), FALSE)
  ELSE h

\* make_single_owner_inplace: the copy t is gone when it returns, this
\* buffer stays in the _slices of the owner it leaves.
MakeSingleOwner(h, b, o) ==
  IF Shared(h, b)
  THEN NewBuffer(h, b, o, Content(h, b), FALSE, h.buffer[b].size)
  ELSE h

\* Mutant: a shallow copy whatever the owner's exposure.
CopyShallow(h, source, b, o) ==
  LET s == h.buffer[source] IN AddSlice(h, b, s.owner, s.offset, s.size)

\* ExposureTrackedBuffer.copy(deep=False): b is the copy.
CopyBuffer(h, source, b, o) ==
  LET s == h.buffer[source] IN
  IF h.exposed[s.owner]
  THEN NewBuffer(h, b, o, Content(h, source), FALSE, s.size)
  ELSE AddSlice(h, b, s.owner, s.offset, s.size)

Least(m, n) == IF m < n THEN m ELSE n

\* Mutant: one element too many.
GetItemOverrun(h, source, b, start, stop) ==
  LET s == h.buffer[source]
      from == Least(start, s.size)
  IN  AddSlice(h, b, s.owner, s.offset + from, Least(stop, s.size) - from + 1)

\* Buffer.__getitem__: slice.indices clips the bounds to the buffer.
GetItem(h, source, b, start, stop) ==
  LET s == h.buffer[source]
      from == Least(start, s.size)
  IN  AddSlice(h, b, s.owner, s.offset + from, Least(stop, s.size) - from)

(***************************************************************************)
(* Reference counting.                                                      *)
(***************************************************************************)
Holders == {c \in Columns : column[c] # None}
Held == {x \in Arrays : array[x] # None}
Kept == (UNION {{column[c].base, column[c].data} : c \in Holders})
        \cup {array[x].keeps : x \in Held}

\* The heap at the end of a call that leaves h: an owner stays with the
\* buffers that refer to it, or the array that keeps its allocation.
Commit(h) ==
  LET live == Buffers \cap Kept'
      allocated == {h.buffer[b].owner : b \in live} \cup (Owners \cap Kept')
  IN
  /\ buffer'  = [b \in Buffers |-> IF b \in live THEN h.buffer[b] ELSE None]
  /\ slices'  = [o \in Owners |-> IF o \in allocated THEN h.slices[o] \cap live ELSE {}]
  /\ exposed' = [o \in Owners |-> o \in allocated /\ h.exposed[o]]
  /\ memory'  = [o \in Owners |-> IF o \in allocated THEN h.memory[o] ELSE None]

\* Identities nobody uses; an address some array still points to is not reused.
FreeBuffers == {b \in Buffers : buffer[b] = None}
FreeOwners == Owners \ ({buffer[b].owner : b \in Buffers \ FreeBuffers}
                         \cup {array[x].owner : x \in Held})
Room == FreeBuffers # {} /\ FreeOwners # {}
NextBuffer == CHOOSE b \in FreeBuffers : TRUE
NextOwner == CHOOSE o \in FreeOwners : TRUE

(***************************************************************************)
(* Columns.                                                                 *)
(***************************************************************************)
\* The elements a column shows through to_pylibcudf.
View(c) == [k \in 0 .. column[c].size - 1 |->
              Content(Heap, column[c].base)[column[c].offset + k]]

\* build_column of a buffer over exactly its elements.
Whole(b, size) == [base |-> b, data |-> None, offset |-> 0, size |-> size]

Call(name, c) == name \in program /\ column[c] # None /\ Room

\* A call of column c that gives the new column d.
Into(d, record) == /\ column[d] = None
                   /\ column' = [column EXCEPT ![d] = record]
                   /\ UNCHANGED array

\* A column of new memory: host data, or what libcudf returns.
FromElements(d, elements, size) ==
  /\ Into(d, Whole(NextBuffer, size))
  /\ Commit(NewBuffer(Heap, NextBuffer, NextOwner, elements, FALSE, size))

Create(d, elements) ==
  /\ "create" \in program /\ Room
  /\ FromElements(d, elements, Length)

\* column.copy(deep=True) copies the view, not the base.
CopyDeep(c, d) == Call("copyDeep", c) /\ FromElements(d, View(c), column[c].size)

\* column.copy(deep=False)
Copy(c, d) ==
  /\ Call("copy", c)
  /\ Into(d, [column[c] EXCEPT !.base = NextBuffer, !.data = None])
  /\ Commit(CopyBuffer(Heap, column[c].base, NextBuffer, NextOwner))

\* column.slice: libcudf's view refers to base_data's wrapper, and as_buffer
\* finds the owner through it.
Slice(c, d, start, stop) ==
  LET s == buffer[column[c].base] IN
  /\ Call("slice", c)
  /\ start < stop /\ stop <= column[c].size
  /\ Into(d, [base |-> NextBuffer, data |-> None,
              offset |-> column[c].offset + start, size |-> stop - start])
  /\ Commit(AddSlice(Heap, NextBuffer, s.owner, s.offset, s.size))

\* column.data: the heap and the buffer when it is cached or made now.
DataBuffer(c) == IF column[c].data = None THEN NextBuffer ELSE column[c].data
WithData(c) == IF column[c].data = None
               THEN GetItem(Heap, column[c].base, NextBuffer,
                            column[c].offset, column[c].offset + column[c].size)
               ELSE Heap

\* values_host, memory_usage: data is looked at and stays cached.
ReadData(c) ==
  /\ Call("read", c)
  /\ column' = [column EXCEPT ![c].data = DataBuffer(c)]
  /\ UNCHANGED array
  /\ Commit(WithData(c))

\* The elements start .. stop - 1 of column c become v.
Written(h, c, start, stop, v) ==
  LET s == h.buffer[column[c].base]
      first == s.offset + column[c].offset
      block == h.memory[s.owner]
  IN  [buffer |-> h.buffer, slices |-> h.slices, exposed |-> h.exposed,
       memory |-> [h.memory EXCEPT ![s.owner] =
         [k \in DOMAIN block |->
            IF first + start <= k /\ k < first + stop THEN v ELSE block[k]]]]

\* Mutant: the cached _data is kept.
FillCached(c, start, stop, v) ==
  /\ Call("fill", c)
  /\ start < stop /\ stop <= column[c].size
  /\ UNCHANGED <<column, array>>
  /\ Commit(Written(MakeSingleOwner(Heap, column[c].base, NextOwner),
                    c, start, stop, v))

\* self[start:stop] = scalar: _fill in place, with to_pylibcudf(mode="write"),
\* then _mimic_inplace with itself, which forgets _data.
Fill(c, start, stop, v) ==
  /\ Call("fill", c)
  /\ start < stop /\ stop <= column[c].size
  /\ column' = [column EXCEPT ![c].data = None]
  /\ UNCHANGED array
  /\ Commit(Written(MakeSingleOwner(Heap, column[c].base, NextOwner),
                    c, start, stop, v))

\* Mutant: the column mimics the new base and keeps its own offset.
ScatterKeepOffset(c, k, v) ==
  /\ Call("scatter", c)
  /\ k < column[c].size
  /\ column' = [column EXCEPT ![c].base = NextBuffer, ![c].data = None]
  /\ UNCHANGED array
  /\ Commit(NewBuffer(Heap, NextBuffer, NextOwner, [View(c) EXCEPT ![k] = v],
                      FALSE, column[c].size))

\* self[map] = scalar: libcudf scatters into a new column, which the column
\* then mimics.
Scatter(c, k, v) ==
  /\ Call("scatter", c)
  /\ k < column[c].size
  /\ column' = [column EXCEPT ![c] = Whole(NextBuffer, column[c].size)]
  /\ UNCHANGED array
  /\ Commit(NewBuffer(Heap, NextBuffer, NextOwner, [View(c) EXCEPT ![k] = v],
                      FALSE, column[c].size))

(***************************************************************************)
(* Third parties.                                                           *)
(***************************************************************************)
Lent(s, keeper, c) == [owner |-> s.owner, offset |-> s.offset, size |-> s.size,
                       keeps |-> keeper, of |-> c]

\* as_column of an array with its own memory: the owner is exposed for good.
Adopt(c, x, elements) ==
  LET b == NextBuffer
      o == NextOwner
  IN
  /\ "adopt" \in program /\ Room /\ column[c] = None /\ array[x] = None
  /\ column' = [column EXCEPT ![c] = Whole(b, Length)]
  /\ array' = [array EXCEPT ![x] =
                 Lent([owner |-> o, offset |-> 0, size |-> Length], o, c)]
  /\ Commit(NewBuffer(Heap, b, o, elements, TRUE, Length))

\* Mutant: the pointer is taken in mode "read".
InterfaceRead(c, x) ==
  /\ Call("interface", c) /\ array[x] = None
  /\ column' = [column EXCEPT ![c].data = DataBuffer(c)]
  /\ array' = [array EXCEPT ![x] = Lent(WithData(c).buffer[DataBuffer(c)], c, c)]
  /\ Commit(WithData(c))

\* column.__cuda_array_interface__: data_ptr makes the data buffer single;
\* if that moved it, it becomes base_data.  The array keeps the column.
Interface(c, x) ==
  LET b == DataBuffer(c)
      h == MakeSingleOwner(WithData(c), b, NextOwner)
  IN
  /\ Call("interface", c) /\ array[x] = None
  /\ column' = [column EXCEPT ![c] =
       IF Shared(WithData(c), b) THEN [@ EXCEPT !.base = b, !.data = None]
                                 ELSE [@ EXCEPT !.data = b]]
  /\ array' = [array EXCEPT ![x] = Lent(h.buffer[b], c, c)]
  /\ Commit(h)

\* column.values: the array is over the data buffer and keeps that.
ValuesOf(c, x) ==
  LET b == DataBuffer(c)
      h == MakeSingleOwner(WithData(c), b, NextOwner)
  IN
  /\ Call("values", c) /\ array[x] = None
  /\ column' = [column EXCEPT ![c].data = b]
  /\ array' = [array EXCEPT ![x] = Lent(h.buffer[b], b, c)]
  /\ Commit(h)

\* A third party writes.  A write to freed memory is undefined and left out.
ExternalWrite(x, k, v) ==
  /\ "external" \in program /\ array[x] # None
  /\ memory[array[x].owner] # None /\ k < array[x].size
  /\ memory' = [memory EXCEPT ![array[x].owner][array[x].offset + k] = v]
  /\ UNCHANGED <<column, buffer, slices, exposed, array>>

ReleaseArray(x) ==
  /\ array[x] # None
  /\ array' = [array EXCEPT ![x] = None]
  /\ UNCHANGED column
  /\ Commit(Heap)

\* The last reference to the column goes: no array keeps it.
Drop(c) ==
  /\ column[c] # None
  /\ \A x \in Arrays : array[x] # None => array[x].keeps # c
  /\ column' = [column EXCEPT ![c] = None]
  /\ array' = [x \in Arrays |-> IF array[x] # None /\ array[x].of = c
                                THEN [array[x] EXCEPT !.of = None] ELSE array[x]]
  /\ Commit(Heap)

(***************************************************************************)
Init ==
  /\ column = [c \in Columns |-> None]
  /\ buffer = [b \in Buffers |-> None]
  /\ slices = [o \in Owners |-> {}]
  /\ exposed = [o \in Owners |-> FALSE]
  /\ memory = [o \in Owners |-> None]
  /\ array = [x \in Arrays |-> None]
  /\ program \in Programs

Next ==
  /\ UNCHANGED program
  /\ \/ \E c \in Columns :
          \/ ReadData(c) \/ Drop(c)
          \/ \E m \in Fresh : Create(c, m)
          \/ \E k \in 0 .. Length - 1, v \in Values : Scatter(c, k, v)
          \/ \E i, j \in 0 .. Length, v \in Values : Fill(c, i, j, v)
          \/ \E d \in Columns :
               \/ Copy(c, d) \/ CopyDeep(c, d)
               \/ \E i, j \in 0 .. Length : Slice(c, d, i, j)
          \/ \E x \in Arrays :
               \/ Interface(c, x) \/ ValuesOf(c, x)
               \/ \E m \in Fresh : Adopt(c, x, m)
     \/ \E x \in Arrays :
          \/ ReleaseArray(x)
          \/ \E k \in 0 .. Length - 1, v \in Values : ExternalWrite(x, k, v)

Spec == Init /\ [][Next]_vars

(***************************************************************************)
(* Properties.                                                              *)
(***************************************************************************)
Live(c) == column[c] # None

TypeOK ==
  /\ column \in [Columns -> [base : Buffers, data : Buffers \cup {None},
                             offset : 0 .. Length, size : 0 .. Length] \cup {None}]
  /\ buffer \in [Buffers -> [owner : Owners, offset : 0 .. Length,
                             size : 0 .. Length] \cup {None}]
  /\ slices \in [Owners -> SUBSET Buffers]
  /\ exposed \in [Owners -> BOOLEAN]
  /\ \A o \in Owners : memory[o] # None =>
       \E n \in 0 .. Length : memory[o] \in [0 .. n - 1 -> Values]
  /\ DOMAIN array = Arrays
  /\ \A x \in Arrays : array[x] # None =>
       array[x].owner \in Owners /\ array[x].of \in Columns \cup {None}

\* Every live buffer is in the weak set of its owner, so len(_slices) never
\* counts too few: "Internal references are tracked by maintaining weak
\* references to every ExposureTrackedBuffer of the underlying memory".
Tracked == \A b \in Buffers : buffer[b] # None => b \in slices[buffer[b].owner]

\* When a third party gets hold of memory, no other column is in it.
ExposureIsPrivate ==
  [][\A x \in Arrays : array[x] = None /\ array'[x] # None =>
       \A d \in Columns \ {array'[x].of} : Live(d)' =>
         buffer'[column'[d].base].owner # array'[x].owner]_vars

\* A column lies within its base.
ColumnsFitTheirBase ==
  \A c \in Columns : Live(c) =>
    column[c].offset + column[c].size <= buffer[column[c].base].size

\* The cached _data, which values_host reads, shows the elements that libcudf
\* sees through base_data, offset and size.
DataIsCurrent ==
  \A c \in Columns : Live(c) /\ column[c].data # None =>
    Content(Heap, column[c].data) = View(c)

\* Memory a third party points to is not freed while it does.
ArraysStayValid ==
  \A x \in Arrays : array[x] # None => memory[array[x].owner] # None

ValuesSpec == INSTANCE ValueSemantics WITH
  value <- [c \in Columns |-> IF column[c] = None THEN None ELSE View(c)],
  lent <- {c \in Columns : column[c] # None
             /\ \E x \in Arrays :
                  /\ array[x] # None /\ array[x].of = c
                  /\ array[x].owner = buffer[column[c].base].owner}

\* Columns behave as independent values, but for what third parties do to their own memory
\* (ExposureTrackedBuffer.copy, make_single_owner_inplace, ColumnBase.slice).
ImplementsValues == ValuesSpec!Spec
=============================================================================
