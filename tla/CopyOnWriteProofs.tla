-------------------------- MODULE CopyOnWriteProofs --------------------------
(***************************************************************************)
(* The weak set of an owner never misses a live buffer, and memory handed to *)
(* a third party is nobody else's at that moment, for any numbers of columns, *)
(* buffers, owners and arrays, any contents and any set of calls.             *)
(* That columns behave as independent values follows in the second part.     *)
(*                                                                         *)
(* The argument: a call works on a heap h of buffers and owners and commits   *)
(* it.  Sound(h, live) says that h counts every buffer of live; each heap     *)
(* operation keeps it, new owners being unused ones, and Commit keeps it      *)
(* because it removes only what is no longer live.  When make_single_owner    *)
(* leaves a buffer where it is, its owner has no other slice; when it moves    *)
(* it, the new owner has no other.                                           *)
(***************************************************************************)
EXTENDS CopyOnWrite, FiniteSetTheorems, TLAPS

LiveBuffers == Buffers \cap Kept

\* Heap h has its types and counts every buffer of live.
Sound(h, live) ==
  /\ h.buffer \in [Buffers -> BufferType \cup {None}]
  /\ h.slices \in [Owners -> SUBSET Buffers]
  /\ \A b \in live : /\ h.buffer[b] \in BufferType
                     /\ b \in h.slices[h.buffer[b].owner]

\* No buffer of live is a slice of o.
Vacant(h, o, live) == \A b \in live : h.buffer[b].owner # o

\* Every buffer of live but b has another owner than b has.
Alone(h, b, live) == \A c \in live \ {b} : h.buffer[c].owner # h.buffer[b].owner

\* Columns and arrays have their types, and no two columns share a buffer.
Separate ==
  \A c, d \in Columns : c # d /\ Live(c) /\ Live(d) =>
    /\ column[c].base \notin {column[d].base, column[d].data}
    /\ column[c].data # None => column[c].data # column[d].data
Places ==
  /\ column \in [Columns -> ColumnType \cup {None}]
  /\ array \in [Arrays -> ArrayType \cup {None}]
  /\ Separate

Dead == \A b \in Buffers \ LiveBuffers : buffer[b] = None

IInv == Places /\ Sound(Heap, LiveBuffers) /\ Dead

-----------------------------------------------------------------------------
(* The heap operations. *)

LEMMA SoundShrinks ==
  ASSUME NEW h, NEW live, NEW less \in SUBSET live, Sound(h, live)
  PROVE  Sound(h, less)
  BY DEF Sound

LEMMA SoundAddSlice ==
  ASSUME NEW h, NEW live \in SUBSET Buffers, Sound(h, live),
         NEW b \in Buffers, NEW o \in Owners, NEW offset \in Int, NEW size \in Int
  PROVE  Sound(AddSlice(h, b, o, offset, size), live \cup {b})
<1> DEFINE g == AddSlice(h, b, o, offset, size)
           s == [owner |-> o, offset |-> offset, size |-> size]
<1>0. s \in BufferType
  BY DEF BufferType
<1>1. g.buffer = [h.buffer EXCEPT ![b] = s] /\ g.slices = [h.slices EXCEPT ![o] = @ \cup {b}]
  BY DEF AddSlice
<1>2. g.buffer \in [Buffers -> BufferType \cup {None}]
  BY <1>0, <1>1 DEF Sound
<1>3. g.slices \in [Owners -> SUBSET Buffers]
  BY <1>1 DEF Sound
<1>4. ASSUME NEW c \in live \cup {b}
      PROVE  g.buffer[c] \in BufferType /\ c \in g.slices[g.buffer[c].owner]
  <2>1. CASE c = b
    <3>1. g.buffer[c] = s
      BY <2>1, <1>1 DEF Sound
    <3>2. g.slices[o] = h.slices[o] \cup {b}
      BY <1>1 DEF Sound
    <3> QED BY <3>1, <3>2, <2>1, <1>0
  <2>2. CASE c # b
    <3>1. g.buffer[c] = h.buffer[c] /\ h.buffer[c] \in BufferType
          /\ c \in h.slices[h.buffer[c].owner]
      BY <2>2, <1>1 DEF Sound
    <3>2. h.buffer[c].owner \in Owners
      BY <3>1 DEF BufferType
    <3>3. h.slices[h.buffer[c].owner] \subseteq g.slices[h.buffer[c].owner]
      BY <3>2, <1>1 DEF Sound
    <3> QED BY <3>1, <3>3
  <2> QED BY <2>1, <2>2
<1> QED BY <1>2, <1>3, <1>4 DEF Sound

LEMMA SoundAddOwner ==
  ASSUME NEW h, NEW live \in SUBSET Buffers, Sound(h, live),
         NEW o \in Owners, Vacant(h, o, live), NEW e, NEW x
  PROVE  Sound(AddOwner(h, o, e, x), live) /\ Vacant(AddOwner(h, o, e, x), o, live)
<1> DEFINE g == AddOwner(h, o, e, x)
<1>1. g.buffer = h.buffer /\ g.slices = [h.slices EXCEPT ![o] = {}]
  BY DEF AddOwner
<1>2. g.slices \in [Owners -> SUBSET Buffers]
  BY <1>1 DEF Sound
<1>3. ASSUME NEW c \in live
      PROVE  g.buffer[c] \in BufferType /\ c \in g.slices[g.buffer[c].owner]
  <2>1. h.buffer[c] \in BufferType /\ c \in h.slices[h.buffer[c].owner]
    BY DEF Sound
  <2>2. h.buffer[c].owner \in Owners /\ h.buffer[c].owner # o
    BY <2>1 DEF BufferType, Vacant
  <2> QED BY <2>1, <2>2, <1>1 DEF Sound
<1> QED BY <1>1, <1>2, <1>3 DEF Sound, Vacant

\* A new owner has no slice but its first.
LEMMA SoundNewBuffer ==
  ASSUME NEW h, NEW live \in SUBSET Buffers, Sound(h, live),
         NEW b \in Buffers, NEW o \in Owners, Vacant(h, o, live),
         NEW e, NEW x, NEW size \in Int
  PROVE  /\ Sound(NewBuffer(h, b, o, e, x, size), live \cup {b})
         /\ Alone(NewBuffer(h, b, o, e, x, size), b, live \cup {b})
         /\ NewBuffer(h, b, o, e, x, size).buffer[b] \in BufferType
<1> DEFINE f == AddOwner(h, o, e, x)
           g == NewBuffer(h, b, o, e, x, size)
<1>1. g = AddSlice(f, b, o, 0, size) /\ 0 \in Int
  BY DEF NewBuffer
<1>2. Sound(f, live) /\ Vacant(f, o, live)
  BY SoundAddOwner
<1> HIDE DEF f
<1>3. Sound(g, live \cup {b})
  BY <1>1, <1>2, SoundAddSlice
<1>4. g.buffer = [f.buffer EXCEPT ![b] = [owner |-> o, offset |-> 0, size |-> size]]
  BY <1>1 DEF AddSlice
<1>5. Alone(g, b, live \cup {b})
  BY <1>2, <1>4 DEF Alone, Vacant, Sound
<1> QED BY <1>3, <1>5 DEF Sound

\* make_single_owner_inplace leaves b the only live buffer of its owner.
LEMMA SingleOwner ==
  ASSUME NEW h, NEW live \in SUBSET Buffers, Sound(h, live),
         NEW b \in live, NEW o \in Owners, Vacant(h, o, live)
  PROVE  /\ Sound(MakeSingleOwner(h, b, o), live)
         /\ Alone(MakeSingleOwner(h, b, o), b, live)
         /\ MakeSingleOwner(h, b, o).buffer[b] \in BufferType
<1> DEFINE s == h.buffer[b]
<1>1. s \in BufferType /\ s.size \in Int /\ s.owner \in Owners /\ b \in h.slices[s.owner]
  BY DEF Sound, BufferType
<1>2. live \cup {b} = live
  OBVIOUS
<1>3. CASE Shared(h, b)
  <2>1. MakeSingleOwner(h, b, o) = NewBuffer(h, b, o, Content(h, b), FALSE, s.size)
    BY <1>3 DEF MakeSingleOwner
  <2> DEFINE n == s.size
             e == Content(h, b)
  <2>2. n \in Int /\ b \in Buffers
    BY <1>1
  <2> HIDE DEF n, e
  <2>3. /\ Sound(NewBuffer(h, b, o, e, FALSE, n), live \cup {b})
        /\ Alone(NewBuffer(h, b, o, e, FALSE, n), b, live \cup {b})
        /\ NewBuffer(h, b, o, e, FALSE, n).buffer[b] \in BufferType
    BY <2>2, SoundNewBuffer
  <2> QED BY <2>1, <2>3, <1>2 DEF n, e
<1>4. CASE ~Shared(h, b)
  <2>1. MakeSingleOwner(h, b, o) = h
    BY <1>4 DEF MakeSingleOwner
  <2> DEFINE S == h.slices[s.owner]
  <2>2. IsFiniteSet(S) /\ Cardinality(S) \in Nat /\ ~(Cardinality(S) > 1)
    <3>1. S \subseteq Buffers
      BY <1>1 DEF Sound
    <3>2. IsFiniteSet(S)
      BY <3>1, BuffersAreFinite, FS_Subset
    <3> QED BY <3>2, <1>4, FS_CardinalityType DEF Shared
  <2>3. ASSUME NEW c \in live \ {b}, h.buffer[c].owner = s.owner PROVE FALSE
    <3>1. c \in S /\ b \in S /\ c # b
      BY <2>3, <1>1 DEF Sound
    <3> HIDE DEF S, s
    <3>2. IsFiniteSet({b, c}) /\ Cardinality({b, c}) = 2
    <4>1. IsFiniteSet({b}) /\ Cardinality({b}) = 1
      BY FS_Singleton
    <4>2. c \notin {b}
      BY <3>1
    <4>3. {b} \cup {c} = {b, c}
      OBVIOUS
    <4>4. IsFiniteSet({b} \cup {c}) /\ Cardinality({b} \cup {c}) = Cardinality({b}) + 1
      BY <4>1, <4>2, FS_AddElement
    <4> QED BY <4>1, <4>3, <4>4
    <3>3. {b, c} \subseteq S
      BY <3>1
    <3>4. Cardinality({b, c}) <= Cardinality(S)
      BY <3>3, <2>2, FS_Subset
    <3> QED BY <3>2, <3>4, <2>2
  <2> QED BY <2>1, <2>3, <1>1 DEF Alone
<1> QED BY <1>3, <1>4

-----------------------------------------------------------------------------
(* Commit, identities, and the parts of calls. *)

LEMMA CommitSound ==
  ASSUME NEW h, Commit(h), Sound(h, LiveBuffers')
  PROVE  Sound(Heap, LiveBuffers)' /\ Dead'
<1>1. buffer' = [b \in Buffers |-> IF b \in LiveBuffers' THEN h.buffer[b] ELSE None]
  BY DEF Commit, LiveBuffers
<1>2. Dead'
  BY <1>1 DEF Dead
<1>3. buffer' \in [Buffers -> BufferType \cup {None}]
  BY <1>1 DEF Sound
<1> DEFINE allocated == {h.buffer[b].owner : b \in LiveBuffers'} \cup (Owners \cap Kept')
<1>4. slices' = [o \in Owners |-> IF o \in allocated THEN h.slices[o] \cap LiveBuffers' ELSE {}]
  BY DEF Commit, LiveBuffers
<1>5. slices' \in [Owners -> SUBSET Buffers]
  BY <1>4 DEF Sound
<1>6. ASSUME NEW b \in LiveBuffers'
      PROVE  buffer'[b] \in BufferType /\ b \in slices'[buffer'[b].owner]
  <2>1. buffer'[b] = h.buffer[b] /\ h.buffer[b] \in BufferType
        /\ b \in h.slices[h.buffer[b].owner]
    BY <1>1 DEF Sound, LiveBuffers
  <2>2. h.buffer[b].owner \in Owners /\ h.buffer[b].owner \in allocated
    BY <2>1 DEF BufferType
  <2> HIDE DEF allocated
  <2>3. slices'[h.buffer[b].owner] = h.slices[h.buffer[b].owner] \cap LiveBuffers'
    BY <2>2, <1>4
  <2> QED BY <2>1, <2>3
<1>7. Sound(Heap', LiveBuffers')
  BY <1>3, <1>5, <1>6 DEF Sound, Heap
<1> QED BY <1>2, <1>7 DEF Sound, Heap

\* The identities a call takes are not in use.
LEMMA Identities ==
  ASSUME IInv, Room
  PROVE  /\ NextBuffer \in Buffers \ LiveBuffers
         /\ NextOwner \in Owners
         /\ Vacant(Heap, NextOwner, LiveBuffers)
<1>1. NextBuffer \in FreeBuffers /\ NextOwner \in FreeOwners
  BY DEF Room, NextBuffer, NextOwner
<1>2. \A b \in LiveBuffers : b \in Buffers \ FreeBuffers /\ Heap.buffer[b] = buffer[b]
  BY NamesAreApart DEF IInv, Sound, Heap, FreeBuffers, LiveBuffers
<1>3. \A b \in Buffers \ FreeBuffers : buffer[b].owner # NextOwner
  BY <1>1 DEF FreeOwners
<1> QED BY <1>1, <1>2, <1>3 DEF FreeBuffers, FreeOwners, Vacant

\* What a column refers to is live.
LEMMA Referred ==
  ASSUME IInv, NEW c \in Columns, Live(c)
  PROVE  /\ column[c] \in ColumnType
         /\ column[c].base \in LiveBuffers
         /\ column[c].data = None \/ column[c].data \in LiveBuffers
<1>1. column[c] \in ColumnType
  BY DEF IInv, Places, Live
<1>2. {column[c].base, column[c].data} \subseteq Kept
  BY DEF Kept, Holders, Live
<1> QED BY <1>1, <1>2 DEF ColumnType, LiveBuffers

\* The heap is sound of every set of buffers that are live now.
LEMMA HeapIsSound ==
  ASSUME IInv
  PROVE  Sound(Heap, LiveBuffers) /\ LiveBuffers \in SUBSET Buffers
  BY DEF IInv, LiveBuffers

\* column.data gives a live buffer or the new one, of an owner in use.
LEMMA DataIsSound ==
  ASSUME IInv, Room, NEW c \in Columns, Live(c)
  PROVE  /\ DataBuffer(c) \in Buffers
         /\ Sound(WithData(c), LiveBuffers \cup {DataBuffer(c)})
         /\ Vacant(WithData(c), NextOwner, LiveBuffers \cup {DataBuffer(c)})
         /\ DataBuffer(c) \in {column[c].data, NextBuffer}
<1> DEFINE b == NextBuffer
           s == buffer[column[c].base]
<1>1. /\ b \in Buffers \ LiveBuffers /\ NextOwner \in Owners
      /\ Vacant(Heap, NextOwner, LiveBuffers)
  BY Identities
<1>2. /\ column[c] \in ColumnType /\ column[c].base \in LiveBuffers
      /\ column[c].data = None \/ column[c].data \in LiveBuffers
  BY Referred
<1>3. Sound(Heap, LiveBuffers) /\ LiveBuffers \in SUBSET Buffers
  BY HeapIsSound
<1>4. s \in BufferType /\ s.owner # NextOwner
  BY <1>1, <1>2, <1>3 DEF Sound, Heap, Vacant
<1>5. CASE column[c].data = None
  <2> DEFINE start == column[c].offset
             stop == column[c].offset + column[c].size
             from == Least(start, s.size)
             n == Least(stop, s.size) - from
  <2>1. DataBuffer(c) = b /\ WithData(c) = GetItem(Heap, column[c].base, b, start, stop)
    BY <1>5 DEF DataBuffer, WithData
  <2>2. GetItem(Heap, column[c].base, b, start, stop)
          = AddSlice(Heap, b, s.owner, s.offset + from, n)
    BY DEF GetItem, Heap
  <2>3. start \in Int /\ column[c].size \in Int /\ stop \in Int
    BY <1>2 DEF ColumnType
  <2>4. s.owner \in Owners /\ s.offset \in Int /\ s.size \in Int
    BY <1>4 DEF BufferType
  <2> HIDE DEF s, start, stop
  <2>5. from \in Int /\ n \in Int
    BY <2>3, <2>4 DEF Least
  <2> HIDE DEF from, n
  <2>6. s.offset + from \in Int
    BY <2>4, <2>5
  <2>7. Sound(AddSlice(Heap, b, s.owner, s.offset + from, n), LiveBuffers \cup {b})
    BY <2>4, <2>5, <2>6, <1>1, <1>3, SoundAddSlice
  <2>8. Vacant(AddSlice(Heap, b, s.owner, s.offset + from, n), NextOwner, LiveBuffers \cup {b})
    BY <1>1, <1>3, <1>4 DEF Vacant, AddSlice, Sound, s
  <2> QED BY <2>1, <2>2, <2>7, <2>8, <1>1
<1>6. CASE column[c].data # None
  <2>1. DataBuffer(c) = column[c].data /\ WithData(c) = Heap
    BY <1>6 DEF DataBuffer, WithData
  <2>2. LiveBuffers \cup {column[c].data} = LiveBuffers
    BY <1>6, <1>2
  <2> QED BY <2>1, <2>2, <1>1, <1>2, <1>3, <1>6
<1> QED BY <1>5, <1>6

-----------------------------------------------------------------------------
(* The calls. *)

\* A call that gives column c the record r, made of its own buffers and an
\* unused one, leaves columns separate and keeps nothing else alive.
Mine(c) == IF Live(c) THEN {column[c].base, column[c].data} ELSE {}
Regards(c, r) ==
  /\ c \in Columns /\ r \in ColumnType
  /\ column' = [column EXCEPT ![c] = r]
  /\ {r.base, r.data} \subseteq {NextBuffer, None} \cup Mine(c)
  /\ array' \in [Arrays -> ArrayType \cup {None}]
  /\ \A x \in Arrays : array'[x] # None =>
       array'[x] = array[x] \/ array'[x].keeps \in {r.base, r.data} \cup Columns \cup Owners

LEMMA ColumnStep ==
  ASSUME IInv, Room, NEW c, NEW r, Regards(c, r)
  PROVE  Places' /\ LiveBuffers' \subseteq LiveBuffers \cup {r.base, r.data}
<1>1. NextBuffer \in Buffers \ LiveBuffers
  BY Identities
<1>2. column' \in [Columns -> ColumnType \cup {None}] /\ column'[c] = r /\ r # None
  BY NamesAreApart DEF Regards, IInv, Places
<1>3. \A d \in Columns \ {c} : column'[d] = column[d]
  BY DEF Regards, IInv, Places
<1>4. \A d \in Columns \ {c} : Live(d) =>
        /\ column[d].base \notin {r.base, r.data}
        /\ column[d].data # None => column[d].data \notin {r.base, r.data}
  <2> SUFFICES ASSUME NEW d \in Columns \ {c}, Live(d)
               PROVE  /\ column[d].base \notin {r.base, r.data}
                      /\ column[d].data # None => column[d].data \notin {r.base, r.data}
    OBVIOUS
  <2>1. column[d].base \in LiveBuffers /\ (column[d].data = None \/ column[d].data \in LiveBuffers)
    BY Referred
  <2>2. None \notin Buffers
    BY NamesAreApart
  <2>3. CASE Live(c)
    <3>1. /\ column[d].base \notin {column[c].base, column[c].data}
          /\ column[c].base \notin {column[d].base, column[d].data}
          /\ column[d].data # None => column[d].data # column[c].data
      BY <2>3 DEF IInv, Places, Separate, Regards
    <3> QED BY <1>1, <2>1, <2>2, <2>3, <3>1 DEF Regards, Mine, LiveBuffers
  <2>4. CASE ~Live(c)
    BY <1>1, <2>1, <2>2, <2>4 DEF Regards, Mine, LiveBuffers
  <2> QED BY <2>3, <2>4
<1>5. Separate'
  <2> SUFFICES ASSUME NEW a \in Columns, NEW d \in Columns, a # d, Live(a)', Live(d)'
               PROVE  /\ column'[a].base \notin {column'[d].base, column'[d].data}
                      /\ column'[a].data # None => column'[a].data # column'[d].data
    BY DEF Separate, Live
  <2>1. CASE a = c
    <3>1. column'[a] = r /\ column'[d] = column[d] /\ Live(d)
      BY <2>1, <1>2, <1>3 DEF Live
    <3>2. column[d].base \notin {r.base, r.data}
          /\ (column[d].data # None => column[d].data \notin {r.base, r.data})
      BY <3>1, <2>1, <1>4
    <3>3. r.base # None
      BY NamesAreApart DEF Regards, ColumnType
    <3> QED BY <3>1, <3>2, <3>3
  <2>2. CASE d = c
    <3>1. column'[d] = r /\ column'[a] = column[a] /\ Live(a)
      BY <2>2, <1>2, <1>3 DEF Live
    <3>2. column[a].base \notin {r.base, r.data}
          /\ (column[a].data # None => column[a].data \notin {r.base, r.data})
      BY <3>1, <2>2, <1>4
    <3> QED BY <3>1, <3>2
  <2>3. CASE a # c /\ d # c
    BY <2>3, <1>3 DEF IInv, Places, Separate, Live
  <2> QED BY <2>1, <2>2, <2>3
<1>6. Places'
  BY <1>2, <1>5 DEF Places, Regards
<1>7. ASSUME NEW b \in LiveBuffers' PROVE b \in LiveBuffers \cup {r.base, r.data}
  <2>1. b \in Buffers /\ b \in Kept'
    BY <1>7 DEF LiveBuffers
  <2>2. CASE \E d \in Columns : column'[d] # None /\ b \in {column'[d].base, column'[d].data}
    <3> PICK d \in Columns : column'[d] # None /\ b \in {column'[d].base, column'[d].data}
      BY <2>2
    <3>1. CASE d = c
      BY <3>1, <1>2
    <3>2. CASE d # c
      <4>1. column[d] # None /\ b \in {column[d].base, column[d].data}
        BY <3>2, <1>3
      <4> QED BY <2>1, <4>1 DEF LiveBuffers, Kept, Holders
    <3> QED BY <3>1, <3>2
  <2>3. CASE \E x \in Arrays : array'[x] # None /\ array'[x].keeps = b
    <3> PICK x \in Arrays : array'[x] # None /\ array'[x].keeps = b
      BY <2>3
    <3>1. CASE array'[x] = array[x]
      BY <3>1, <2>1 DEF LiveBuffers, Kept, Held
    <3>2. CASE array'[x].keeps \in {r.base, r.data} \cup Columns \cup Owners
      BY <3>2, <2>1, NamesAreApart
    <3> QED BY <3>1, <3>2 DEF Regards
  <2> QED BY <2>1, <2>2, <2>3 DEF Kept, Holders, Held
<1> QED BY <1>6, <1>7

LEMMA CommitStep ==
  ASSUME NEW h, NEW live, Sound(h, live), LiveBuffers' \subseteq live, Commit(h), Places'
  PROVE  IInv'
<1>1. Sound(h, LiveBuffers')
  BY SoundShrinks
<1> QED BY <1>1, CommitSound DEF IInv

\* A call that puts column d on the heap h with the unused buffer.
LEMMA MakesColumn ==
  ASSUME IInv, Room, NEW d \in Columns, NEW r \in ColumnType, NEW h,
         r.base = NextBuffer, r.data = None,
         column' = [column EXCEPT ![d] = r], UNCHANGED array,
         Sound(h, LiveBuffers \cup {NextBuffer}), Commit(h)
  PROVE  IInv'
<1>1. Regards(d, r)
  BY DEF Regards, IInv, Places
<1>2. Places' /\ LiveBuffers' \subseteq LiveBuffers \cup {r.base, r.data}
  BY <1>1, ColumnStep
<1>3. LiveBuffers' \subseteq LiveBuffers \cup {NextBuffer}
  BY <1>2, NamesAreApart DEF LiveBuffers
<1> QED BY <1>2, <1>3, CommitStep

LEMMA FreshSound ==
  ASSUME IInv, Room, NEW e, NEW x, NEW size \in Int
  PROVE  /\ Sound(NewBuffer(Heap, NextBuffer, NextOwner, e, x, size), LiveBuffers \cup {NextBuffer})
         /\ Alone(NewBuffer(Heap, NextBuffer, NextOwner, e, x, size), NextBuffer,
                  LiveBuffers \cup {NextBuffer})
  BY Identities, HeapIsSound, SoundNewBuffer

LEMMA FromElementsStep ==
  ASSUME IInv, Room, NEW d \in Columns, NEW e, NEW size \in Int, FromElements(d, e, size)
  PROVE  IInv'
<1>1. NextBuffer \in Buffers
  BY Identities
<1>2. Whole(NextBuffer, size) \in ColumnType
  BY <1>1 DEF Whole, ColumnType
<1> QED BY <1>2, FreshSound, MakesColumn DEF FromElements, Into, Whole

LEMMA CopyStep ==
  ASSUME IInv, NEW c \in Columns, NEW d \in Columns, Copy(c, d)
  PROVE  IInv'
<1> DEFINE b == NextBuffer
           o == NextOwner
           r == [column[c] EXCEPT !.base = b, !.data = None]
           s == buffer[column[c].base]
           h == CopyBuffer(Heap, column[c].base, b, o)
<1>1. Room /\ Live(c) /\ column' = [column EXCEPT ![d] = r] /\ UNCHANGED array /\ Commit(h)
  BY DEF Copy, Call, Into, Live
<1>2. column[c] \in ColumnType /\ column[c].base \in LiveBuffers /\ b \in Buffers
  BY <1>1, Referred, Identities
<1>3. r \in ColumnType /\ r.base = b /\ r.data = None
  BY <1>2 DEF ColumnType
<1>4. s \in BufferType /\ Heap.buffer = buffer
  BY <1>2 DEF IInv, Sound, Heap
<1>5. s.owner \in Owners /\ s.offset \in Int /\ s.size \in Int
  BY <1>4 DEF BufferType
<1>6. Sound(h, LiveBuffers \cup {b})
  <2>1. CASE Heap.exposed[s.owner]
    <3>1. h = NewBuffer(Heap, b, o, Content(Heap, column[c].base), FALSE, s.size)
      BY <2>1, <1>4 DEF CopyBuffer
    <3> QED BY <3>1, <1>1, <1>5, FreshSound
  <2>2. CASE ~Heap.exposed[s.owner]
    <3>1. h = AddSlice(Heap, b, s.owner, s.offset, s.size)
      BY <2>2, <1>4 DEF CopyBuffer
    <3> QED BY <3>1, <1>2, <1>5, HeapIsSound, SoundAddSlice
  <2> QED BY <2>1, <2>2
<1> HIDE DEF r, h
<1> QED BY <1>1, <1>3, <1>6, MakesColumn

LEMMA SliceStep ==
  ASSUME IInv, NEW c \in Columns, NEW d \in Columns, NEW i \in Int, NEW j \in Int,
         Slice(c, d, i, j)
  PROVE  IInv'
<1> DEFINE b == NextBuffer
           r == [base |-> b, data |-> None, offset |-> column[c].offset + i, size |-> j - i]
           s == buffer[column[c].base]
           h == AddSlice(Heap, b, s.owner, s.offset, s.size)
<1>1. Room /\ Live(c) /\ column' = [column EXCEPT ![d] = r] /\ UNCHANGED array /\ Commit(h)
  BY DEF Slice, Call, Into, Live
<1>2. column[c] \in ColumnType /\ column[c].base \in LiveBuffers /\ b \in Buffers
  BY <1>1, Referred, Identities
<1>3. r \in ColumnType /\ r.base = b /\ r.data = None
  BY <1>2 DEF ColumnType
<1>4. s \in BufferType
  BY <1>2 DEF IInv, Sound, Heap
<1>5. s.owner \in Owners /\ s.offset \in Int /\ s.size \in Int
  BY <1>4 DEF BufferType
<1> HIDE DEF r, s, b
<1>6. Sound(h, LiveBuffers \cup {b})
  BY <1>2, <1>5, HeapIsSound, SoundAddSlice
<1> HIDE DEF h
<1> QED BY <1>1, <1>3, <1>6, MakesColumn DEF b

\* A call that gives column c the record r and commits h.
LEMMA RegardsStep ==
  ASSUME IInv, Room, NEW c, NEW r, Regards(c, r), NEW h, NEW live, Sound(h, live),
         LiveBuffers \subseteq live, r.base \in live, r.data \in live \cup {None}, Commit(h)
  PROVE  IInv'
<1>1. Places' /\ LiveBuffers' \subseteq LiveBuffers \cup {r.base, r.data}
  BY ColumnStep
<1>2. None \notin LiveBuffers'
  BY NamesAreApart DEF LiveBuffers
<1>3. LiveBuffers' \subseteq live
  BY <1>1, <1>2
<1> QED BY <1>1, <1>3, CommitStep

LEMMA ReadDataStep ==
  ASSUME IInv, NEW c \in Columns, ReadData(c)
  PROVE  IInv'
<1> DEFINE b == DataBuffer(c)
           r == [column[c] EXCEPT !.data = b]
           h == WithData(c)
           live == LiveBuffers \cup {b}
<1>1. Room /\ Live(c) /\ column' = [column EXCEPT ![c].data = b] /\ UNCHANGED array /\ Commit(h)
  BY DEF ReadData, Call, Live
<1>2. column[c] \in ColumnType /\ column[c].base \in LiveBuffers
  BY <1>1, Referred
<1>3. b \in Buffers /\ Sound(h, live) /\ b \in {column[c].data, NextBuffer}
  BY <1>1, DataIsSound
<1>4. r \in ColumnType /\ r.base = column[c].base /\ r.data = b
  BY <1>2, <1>3 DEF ColumnType
<1>5. column' = [column EXCEPT ![c] = r]
  BY <1>1
<1> HIDE DEF b, r, h
<1>6. Regards(c, r)
  BY <1>1, <1>3, <1>4, <1>5 DEF Regards, Mine, IInv, Places
<1> QED BY <1>1, <1>2, <1>3, <1>4, <1>6, RegardsStep

LEMMA FillStep ==
  ASSUME IInv, NEW c \in Columns, NEW i, NEW j, NEW v, Fill(c, i, j, v)
  PROVE  IInv'
<1> DEFINE b == column[c].base
           r == [column[c] EXCEPT !.data = None]
           g == MakeSingleOwner(Heap, b, NextOwner)
           h == Written(g, c, i, j, v)
<1>1. Room /\ Live(c) /\ column' = [column EXCEPT ![c].data = None] /\ UNCHANGED array /\ Commit(h)
  BY DEF Fill, Call, Live
<1>2. column[c] \in ColumnType /\ b \in LiveBuffers
  BY <1>1, Referred
<1>3. Sound(g, LiveBuffers)
  BY <1>1, <1>2, Identities, HeapIsSound, SingleOwner
<1> HIDE DEF g
<1>4. Sound(h, LiveBuffers)
  BY <1>3 DEF Written, Sound
<1>5. r \in ColumnType /\ r.base = b /\ r.data = None /\ column' = [column EXCEPT ![c] = r]
  BY <1>1, <1>2 DEF ColumnType
<1> HIDE DEF r, h
<1>6. Regards(c, r)
  BY <1>1, <1>5 DEF Regards, Mine, IInv, Places
<1> QED BY <1>1, <1>2, <1>4, <1>5, <1>6, RegardsStep

LEMMA ScatterStep ==
  ASSUME IInv, NEW c \in Columns, NEW k, NEW v, Scatter(c, k, v)
  PROVE  IInv'
<1> DEFINE e == [View(c) EXCEPT ![k] = v]
           n == column[c].size
           r == Whole(NextBuffer, n)
           h == NewBuffer(Heap, NextBuffer, NextOwner, e, FALSE, n)
<1>1. Room /\ Live(c) /\ column' = [column EXCEPT ![c] = r] /\ UNCHANGED array /\ Commit(h)
  BY DEF Scatter, Call, Live
<1>2. n \in Int /\ NextBuffer \in Buffers
  BY <1>1, Referred, Identities DEF ColumnType
<1> HIDE DEF e, n
<1>3. Sound(h, LiveBuffers \cup {NextBuffer})
  BY <1>1, <1>2, FreshSound
<1>4. r \in ColumnType /\ r.base = NextBuffer /\ r.data = None
  BY <1>2 DEF Whole, ColumnType
<1> HIDE DEF r, h
<1> QED BY <1>1, <1>3, <1>4, MakesColumn

-----------------------------------------------------------------------------
(* Calls that hand memory to a third party. *)

\* No column but c is in the memory of array x.
Private(c, x) ==
  \A d \in Columns \ {c} : Live(d)' => buffer'[column'[d].base].owner # array'[x].owner

\* The memory is that of a buffer of c which is alone on the committed heap.
LEMMA LendStep ==
  ASSUME IInv, IInv', NEW c, NEW r, Regards(c, r), NEW h, NEW live, Commit(h),
         LiveBuffers \subseteq live, NEW b \in {r.base, r.data}, b # None,
         Alone(h, b, live), NEW x \in Arrays, array'[x].owner = h.buffer[b].owner
  PROVE  Private(c, x)
<1> SUFFICES ASSUME NEW d \in Columns \ {c}, Live(d)'
             PROVE  buffer'[column'[d].base].owner # array'[x].owner
  BY DEF Private
<1> DEFINE q == column[d].base
<1>1. column'[d] = column[d] /\ column'[c] = r /\ c \in Columns /\ r # None
  BY NamesAreApart DEF Regards, IInv, Places
<1>2. Live(d) /\ q \in LiveBuffers
  BY <1>1, Referred DEF Live
<1>3. column'[c].base \notin {q, column[d].data} /\ q \notin {r.base, r.data}
  <2>1. Live(c)' /\ Live(d)'
    BY <1>1 DEF Live
  <2> QED BY <2>1, <1>1 DEF IInv, Places, Separate
<1>4. q \in LiveBuffers'
  BY <1>1, <1>2 DEF LiveBuffers, Kept, Holders, Live
<1>5. buffer'[q] = h.buffer[q]
  BY <1>4 DEF Commit, LiveBuffers
<1>6. h.buffer[q].owner # h.buffer[b].owner
  BY <1>2, <1>3 DEF Alone
<1> QED BY <1>1, <1>5, <1>6

LEMMA AdoptStep ==
  ASSUME IInv, NEW c \in Columns, NEW x \in Arrays, NEW m, Adopt(c, x, m)
  PROVE  IInv' /\ Private(c, x)
<1> DEFINE b == NextBuffer
           o == NextOwner
           r == Whole(b, Length)
           y == Lent([owner |-> o, offset |-> 0, size |-> Length], o, c)
           h == NewBuffer(Heap, b, o, m, TRUE, Length)
           live == LiveBuffers \cup {b}
<1>1. /\ Room /\ column' = [column EXCEPT ![c] = r]
      /\ array' = [array EXCEPT ![x] = y] /\ Commit(h)
  BY DEF Adopt
<1>2. b \in Buffers /\ o \in Owners /\ Length \in Int /\ 0 \in Int
  BY <1>1, Identities, LengthIsNat
<1>3. r \in ColumnType /\ r.base = b /\ r.data = None
  BY <1>2 DEF Whole, ColumnType
<1>4. y \in ArrayType /\ y.keeps = o /\ y.owner = o
  BY <1>2 DEF Lent, ArrayType
<1>5. Sound(h, live) /\ Alone(h, b, live)
  BY <1>1, <1>2, FreshSound
<1>6. h.buffer[b].owner = o
  BY <1>2 DEF NewBuffer, AddSlice, AddOwner, Heap, IInv, Sound
<1> HIDE DEF r, y, h
<1>7. Regards(c, r)
  BY <1>1, <1>2, <1>3, <1>4 DEF Regards, IInv, Places
<1>8. IInv'
  BY <1>1, <1>3, <1>5, <1>7, RegardsStep
<1>9. array'[x] = y
  BY <1>1 DEF IInv, Places
<1>10. b # None
  BY <1>2, NamesAreApart
<1> HIDE DEF b
<1>11. Private(c, x)
  BY <1>1, <1>3, <1>4, <1>5, <1>6, <1>7, <1>8, <1>9, <1>10, LendStep
<1> QED BY <1>8, <1>11

\* column.data made single: the heap that __cuda_array_interface__ and values
\* leave.
LEMMA DataMadeSingle ==
  ASSUME IInv, Room, NEW c \in Columns, Live(c)
  PROVE  LET b == DataBuffer(c)
             h == MakeSingleOwner(WithData(c), b, NextOwner)
             live == LiveBuffers \cup {b}
         IN  /\ Sound(h, live) /\ Alone(h, b, live)
             /\ h.buffer[b] \in BufferType
             /\ b \in Buffers /\ b # None
             /\ {b} \subseteq {NextBuffer} \cup {column[c].data}
<1> DEFINE b == DataBuffer(c)
           g == WithData(c)
           live == LiveBuffers \cup {b}
<1>1. /\ b \in Buffers /\ Sound(g, live) /\ Vacant(g, NextOwner, live)
      /\ b \in {column[c].data, NextBuffer}
  BY DataIsSound
<1>2. NextOwner \in Owners /\ live \in SUBSET Buffers /\ b \in live
  BY <1>1, Identities DEF LiveBuffers
<1> HIDE DEF b, g
<1>3. /\ Sound(MakeSingleOwner(g, b, NextOwner), live)
      /\ Alone(MakeSingleOwner(g, b, NextOwner), b, live)
      /\ MakeSingleOwner(g, b, NextOwner).buffer[b] \in BufferType
  BY <1>1, <1>2, SingleOwner
<1> QED BY <1>1, <1>3, NamesAreApart DEF b, g

LEMMA InterfaceStep ==
  ASSUME IInv, NEW c \in Columns, NEW x \in Arrays, Interface(c, x)
  PROVE  IInv' /\ Private(c, x)
<1> DEFINE b == DataBuffer(c)
           h == MakeSingleOwner(WithData(c), b, NextOwner)
           live == LiveBuffers \cup {b}
           y == Lent(h.buffer[b], c, c)
           moved == [column[c] EXCEPT !.base = b, !.data = None]
           stays == [column[c] EXCEPT !.data = b]
           r == IF Shared(WithData(c), b) THEN moved ELSE stays
<1>1. /\ Room /\ Live(c) /\ column' = [column EXCEPT ![c] = r]
      /\ array' = [array EXCEPT ![x] = y] /\ Commit(h)
  BY DEF Interface, Call, Live
<1>2. /\ Sound(h, live) /\ Alone(h, b, live) /\ h.buffer[b] \in BufferType
      /\ b \in Buffers /\ b # None /\ {b} \subseteq {NextBuffer} \cup {column[c].data}
  BY <1>1, DataMadeSingle
<1>3. column[c] \in ColumnType /\ column[c].base \in LiveBuffers
  BY <1>1, Referred
<1>4. moved \in ColumnType /\ moved.base = b /\ moved.data = None
  BY <1>2, <1>3 DEF ColumnType
<1>5. stays \in ColumnType /\ stays.base = column[c].base /\ stays.data = b
  BY <1>2, <1>3 DEF ColumnType
<1>6. y \in ArrayType /\ y.keeps = c /\ y.owner = h.buffer[b].owner
  BY <1>2 DEF Lent, ArrayType, BufferType
<1> HIDE DEF b, h, y, moved, stays
<1>7. /\ r \in ColumnType /\ b \in {r.base, r.data}
      /\ {r.base, r.data} \subseteq {b, column[c].base, None}
  BY <1>4, <1>5
<1> HIDE DEF r
<1>8. Regards(c, r)
  BY <1>1, <1>2, <1>6, <1>7 DEF Regards, Mine, IInv, Places
<1>9. r.base \in live /\ r.data \in live \cup {None}
  BY <1>7, <1>3, NamesAreApart DEF ColumnType
<1>10. IInv'
  BY <1>1, <1>2, <1>8, <1>9, RegardsStep
<1>11. array'[x] = y
  BY <1>1 DEF IInv, Places
<1>12. LiveBuffers \subseteq live /\ array'[x].owner = h.buffer[b].owner
  BY <1>6, <1>11
<1> HIDE DEF live
<1>13. Private(c, x)
  BY <1>1, <1>2, <1>7, <1>8, <1>10, <1>12, LendStep
<1> QED BY <1>10, <1>13

LEMMA ValuesOfStep ==
  ASSUME IInv, NEW c \in Columns, NEW x \in Arrays, ValuesOf(c, x)
  PROVE  IInv' /\ Private(c, x)
<1> DEFINE b == DataBuffer(c)
           h == MakeSingleOwner(WithData(c), b, NextOwner)
           live == LiveBuffers \cup {b}
           y == Lent(h.buffer[b], b, c)
           r == [column[c] EXCEPT !.data = b]
<1>1. /\ Room /\ Live(c) /\ column' = [column EXCEPT ![c] = r]
      /\ array' = [array EXCEPT ![x] = y] /\ Commit(h)
  BY DEF ValuesOf, Call, Live
<1>2. /\ Sound(h, live) /\ Alone(h, b, live) /\ h.buffer[b] \in BufferType
      /\ b \in Buffers /\ b # None /\ {b} \subseteq {NextBuffer} \cup {column[c].data}
  BY <1>1, DataMadeSingle
<1>3. column[c] \in ColumnType /\ column[c].base \in LiveBuffers
  BY <1>1, Referred
<1>4. r \in ColumnType /\ r.base = column[c].base /\ r.data = b
  BY <1>2, <1>3 DEF ColumnType
<1>5. y \in ArrayType /\ y.keeps = b /\ y.owner = h.buffer[b].owner
  BY <1>2 DEF Lent, ArrayType, BufferType
<1> HIDE DEF b, h, y, r
<1>6. Regards(c, r)
  BY <1>1, <1>2, <1>4, <1>5 DEF Regards, Mine, IInv, Places
<1>7. IInv'
  BY <1>1, <1>2, <1>3, <1>4, <1>6, RegardsStep
<1>8. array'[x] = y
  BY <1>1 DEF IInv, Places
<1>9. Private(c, x)
  BY <1>1, <1>2, <1>4, <1>5, <1>6, <1>7, <1>8, LendStep
<1> QED BY <1>7, <1>9

-----------------------------------------------------------------------------
(* Steps that make nothing live. *)

LEMMA ExternalWriteStep ==
  ASSUME IInv, NEW x, NEW k, NEW v, ExternalWrite(x, k, v)
  PROVE  IInv'
<1>1. UNCHANGED <<column, buffer, slices, array>>
  BY DEF ExternalWrite
<1>2. UNCHANGED Kept
  BY <1>1 DEF Kept, Holders, Held
<1> QED BY <1>1, <1>2 DEF IInv, Places, Separate, Live, Dead, Sound, Heap, LiveBuffers

LEMMA ReleaseArrayStep ==
  ASSUME IInv, NEW x \in Arrays, ReleaseArray(x)
  PROVE  IInv'
<1>1. array' = [array EXCEPT ![x] = None] /\ UNCHANGED column /\ Commit(Heap)
  BY DEF ReleaseArray
<1>2. Places'
  BY <1>1 DEF IInv, Places, Separate, Live
<1>3. \A y \in Arrays : array'[y] # None => array'[y] = array[y]
  BY <1>1 DEF IInv, Places
<1>4. LiveBuffers' \subseteq LiveBuffers
  BY <1>1, <1>3 DEF LiveBuffers, Kept, Holders, Held
<1> QED BY <1>1, <1>2, <1>4, HeapIsSound, CommitStep

LEMMA DropStep ==
  ASSUME IInv, NEW c \in Columns, Drop(c)
  PROVE  IInv'
<1> DEFINE orphan(x) == [array[x] EXCEPT !.of = None]
<1>1. /\ column' = [column EXCEPT ![c] = None]
      /\ array' = [x \in Arrays |-> IF array[x] # None /\ array[x].of = c
                                    THEN orphan(x) ELSE array[x]]
      /\ Commit(Heap)
  BY DEF Drop
<1>2. \A x \in Arrays : array[x] # None =>
        orphan(x) \in ArrayType /\ orphan(x).keeps = array[x].keeps
  BY DEF IInv, Places, ArrayType
<1> HIDE DEF orphan
<1>3. array' \in [Arrays -> ArrayType \cup {None}]
  BY <1>1, <1>2 DEF IInv, Places
<1>4. column' \in [Columns -> ColumnType \cup {None}]
      /\ \A d \in Columns : column'[d] # None => column'[d] = column[d]
  BY <1>1 DEF IInv, Places
<1>5. Places'
  BY <1>3, <1>4 DEF IInv, Places, Separate, Live
<1>6. \A x \in Arrays : array'[x] # None =>
        array[x] # None /\ array'[x].keeps = array[x].keeps
  BY <1>1, <1>2
<1>7. LiveBuffers' \subseteq LiveBuffers
  BY <1>4, <1>6 DEF LiveBuffers, Kept, Holders, Held
<1> QED BY <1>1, <1>5, <1>7, HeapIsSound, CommitStep

-----------------------------------------------------------------------------
(* The theorems. *)

LEMMA InitIInv == Init => IInv
<1> SUFFICES ASSUME Init PROVE IInv
  OBVIOUS
<1>1. Holders = {} /\ Held = {}
  BY DEF Init, Holders, Held
<1>2. LiveBuffers = {}
  BY <1>1 DEF LiveBuffers, Kept
<1>3. Places
  BY DEF Init, Places, Separate, Live
<1>4. Sound(Heap, LiveBuffers)
  BY <1>2 DEF Init, Sound, Heap
<1>5. Dead
  BY DEF Init, Dead
<1> QED BY <1>3, <1>4, <1>5 DEF IInv

\* What a step does to arrays: a new one is private to its column.
Exposure == \A x \in Arrays : array[x] = None /\ array'[x] # None =>
              \A d \in Columns \ {array'[x].of} : Live(d)' =>
                buffer'[column'[d].base].owner # array'[x].owner

LEMMA NextIInv == IInv /\ [Next]_vars => IInv' /\ Exposure
<1> SUFFICES ASSUME IInv, [Next]_vars PROVE IInv' /\ Exposure
  OBVIOUS
<1>1. UNCHANGED array => Exposure
  BY DEF Exposure
<1>2. CASE UNCHANGED vars
  <2>1. UNCHANGED <<column, buffer, slices, exposed, memory, array>>
    BY <1>2 DEF vars
  <2>2. UNCHANGED Kept
    BY <2>1 DEF Kept, Holders, Held
  <2>3. IInv'
    BY <2>1, <2>2 DEF IInv, Places, Separate, Live, Dead, Sound, Heap, LiveBuffers
  <2> QED BY <2>1, <2>3, <1>1
<1>3. ASSUME NEW c \in Columns, ReadData(c) PROVE IInv' /\ Exposure
  BY <1>1, <1>3, ReadDataStep DEF ReadData
<1>4. ASSUME NEW c \in Columns, Drop(c) PROVE IInv' /\ Exposure
  <2>1. \A x \in Arrays : array[x] = None => array'[x] = None
    BY <1>4 DEF Drop
  <2> QED BY <2>1, <1>4, DropStep DEF Exposure
<1>5. ASSUME NEW c \in Columns, NEW m \in Fresh, Create(c, m) PROVE IInv' /\ Exposure
  <2>1. Room /\ FromElements(c, m, Length)
    BY <1>5 DEF Create
  <2>2. UNCHANGED array
    BY <2>1 DEF FromElements, Into
  <2>3. Length \in Int
    BY LengthIsNat
  <2> QED BY <2>1, <2>2, <2>3, <1>1, FromElementsStep
<1>6. ASSUME NEW c \in Columns, NEW k \in 0 .. Length - 1, NEW v \in Values, Scatter(c, k, v)
      PROVE  IInv' /\ Exposure
  BY <1>1, <1>6, ScatterStep DEF Scatter
<1>7. ASSUME NEW c \in Columns, NEW i \in 0 .. Length, NEW j \in 0 .. Length, NEW v \in Values,
             Fill(c, i, j, v)
      PROVE  IInv' /\ Exposure
  BY <1>1, <1>7, FillStep DEF Fill
<1>8. ASSUME NEW c \in Columns, NEW d \in Columns, Copy(c, d) PROVE IInv' /\ Exposure
  BY <1>1, <1>8, CopyStep DEF Copy, Into
<1>9. ASSUME NEW c \in Columns, NEW d \in Columns, CopyDeep(c, d) PROVE IInv' /\ Exposure
  <2>1. Room /\ Live(c) /\ FromElements(d, View(c), column[c].size)
    BY <1>9 DEF CopyDeep, Call, Live
  <2>3. UNCHANGED array
    BY <2>1 DEF FromElements, Into
  <2>2. column[c].size \in Int
    BY <2>1, Referred DEF ColumnType
  <2> QED BY <2>1, <2>2, <2>3, <1>1, FromElementsStep
<1>10. ASSUME NEW c \in Columns, NEW d \in Columns, NEW i \in 0 .. Length, NEW j \in 0 .. Length,
              Slice(c, d, i, j)
       PROVE  IInv' /\ Exposure
  <2>1. i \in Int /\ j \in Int
    BY LengthIsNat
  <2> QED BY <2>1, <1>1, <1>10, SliceStep DEF Slice, Into
<1>11. ASSUME NEW c \in Columns, NEW x \in Arrays, Interface(c, x) PROVE IInv' /\ Exposure
  <2>1. IInv' /\ Private(c, x)
    BY <1>11, InterfaceStep
  <2>2. array'[x].of = c /\ \A y \in Arrays \ {x} : array'[y] = array[y]
    BY <1>11 DEF Interface, Lent, IInv, Places
  <2> QED BY <2>1, <2>2 DEF Exposure, Private
<1>12. ASSUME NEW c \in Columns, NEW x \in Arrays, ValuesOf(c, x) PROVE IInv' /\ Exposure
  <2>1. IInv' /\ Private(c, x)
    BY <1>12, ValuesOfStep
  <2>2. array'[x].of = c /\ \A y \in Arrays \ {x} : array'[y] = array[y]
    BY <1>12 DEF ValuesOf, Lent, IInv, Places
  <2> QED BY <2>1, <2>2 DEF Exposure, Private
<1>13. ASSUME NEW c \in Columns, NEW x \in Arrays, NEW m \in Fresh, Adopt(c, x, m)
       PROVE  IInv' /\ Exposure
  <2>1. IInv' /\ Private(c, x)
    BY <1>13, AdoptStep
  <2>2. array'[x].of = c /\ \A y \in Arrays \ {x} : array'[y] = array[y]
    BY <1>13 DEF Adopt, Lent, IInv, Places
  <2> QED BY <2>1, <2>2 DEF Exposure, Private
<1>14. ASSUME NEW x \in Arrays, ReleaseArray(x) PROVE IInv' /\ Exposure
  <2>1. \A y \in Arrays : array[y] = None => array'[y] = None
    BY <1>14 DEF ReleaseArray, IInv, Places
  <2> QED BY <2>1, <1>14, ReleaseArrayStep DEF Exposure
<1>15. ASSUME NEW x \in Arrays, NEW k \in 0 .. Length - 1, NEW v \in Values,
              ExternalWrite(x, k, v)
       PROVE  IInv' /\ Exposure
  BY <1>1, <1>15, ExternalWriteStep DEF ExternalWrite
<1> QED BY <1>2, <1>3, <1>4, <1>5, <1>6, <1>7, <1>8, <1>9, <1>10, <1>11, <1>12, <1>13,
           <1>14, <1>15 DEF Next

\* The invariant the theorems rest on: columns and arrays refer to live
\* buffers only, and every live buffer is counted by its owner.
THEOREM IInvHolds == Spec => []IInv
BY InitIInv, NextIInv, PTL DEF Spec

\* The weak set of an owner never misses a live buffer, so that
\* make_single_owner_inplace never takes shared memory for its own.
THEOREM TrackedHolds == Spec => []Tracked
<1>1. IInv => Tracked
  BY DEF IInv, Dead, Sound, Heap, Tracked
<1> QED BY <1>1, IInvHolds, PTL

\* Whatever call hands memory to a third party, no other column is in it.
THEOREM ExposurePrivate == Spec => ExposureIsPrivate
<1>1. IInv /\ [Next]_vars => [Exposure]_vars
  BY NextIInv
<1>2. [][Exposure]_vars => ExposureIsPrivate
  BY PTL DEF ExposureIsPrivate, Exposure
<1> QED BY <1>1, <1>2, IInvHolds, PTL DEF Spec

(***************************************************************************)
(* Columns behave as independent values: CopyOnWrite implements             *)
(* ValueSemantics, for any numbers of columns, buffers, owners and arrays,  *)
(* any contents and lengths, if a program takes no pointer out of a column  *)
(* ("interface", "values") and does not slice what it adopts.               *)
(*                                                                         *)
(* The argument: what a column shows depends on its base and on the memory  *)
(* of its owner (SameView).  A call writes to memory that is new, or that   *)
(* has no other column in it (Alone); so it changes the value of its own    *)
(* column and leaves all others as they are (CallKeeps).  Third parties     *)
(* write to memory that was adopted, of which every copy is deep.           *)
(***************************************************************************)
Lengths == 0 .. Length
Block(n) == [0 .. n - 1 -> Values]
Blocks == UNION {Block(n) : n \in Lengths}

\* What the theorems assume of the programs.
Independent ==
  \A p \in Programs : p \cap {"interface", "values"} = {} /\ ~({"adopt", "slice"} \subseteq p)

\* What record r of a column shows on heap h, and that it shows something.
ViewOf(h, r) == [k \in 0 .. r.size - 1 |-> Content(h, r.base)[r.offset + k]]

Stored(h, s) ==
  /\ s \in [owner : Owners, offset : Lengths, size : Lengths]
  /\ \E n \in Lengths : h.memory[s.owner] \in Block(n) /\ s.offset + s.size <= n

Fits(h, r) ==
  LET s == h.buffer[r.base] IN
  /\ r.offset \in Lengths /\ r.size \in Lengths /\ r.offset + r.size <= s.size
  /\ Stored(h, s)
  /\ r.data # None =>
       h.buffer[r.data] = [owner |-> s.owner, offset |-> s.offset + r.offset, size |-> r.size]

\* Memory that was adopted is one column's at most, and marked as exposed.
Adopted(x) ==
  LET o == array[x].owner IN
  /\ "slice" \notin program
  /\ array[x].keeps = o /\ array[x].offset = 0 /\ array[x].size = Length
  /\ exposed[o] /\ memory[o] \in Block(Length)
  /\ array[x].of # None => Live(array[x].of)
  /\ \A c \in Columns : Live(c) /\ buffer[column[c].base].owner = o => array[x].of = c

Storage ==
  /\ memory \in [Owners -> Blocks \cup {None}]
  /\ exposed \in [Owners -> BOOLEAN]
  /\ program \in Programs

VInv ==
  /\ IInv /\ Storage
  /\ \A c \in Columns : Live(c) => Fits(Heap, column[c])
  /\ \A x \in Held : Adopted(x)

\* What the columns show, and which of them third parties can write.
ValueNow == [c \in Columns |-> IF column[c] = None THEN None ELSE View(c)]
LentNow == {c \in Columns : column[c] # None
              /\ \E x \in Arrays : /\ array[x] # None /\ array[x].of = c
                                   /\ array[x].owner = buffer[column[c].base].owner}

-----------------------------------------------------------------------------
(* What a column shows. *)

\* It depends on its buffers and on the memory of their owner.
LEMMA SameView ==
  ASSUME NEW h, NEW g, NEW r, Fits(h, r), g.buffer[r.base] = h.buffer[r.base],
         r.data # None => g.buffer[r.data] = h.buffer[r.data],
         g.memory[h.buffer[r.base].owner] = h.memory[h.buffer[r.base].owner]
  PROVE  Fits(g, r) /\ ViewOf(g, r) = ViewOf(h, r)
BY DEF Fits, Stored, ViewOf, Content

LEMMA ContentTyped ==
  ASSUME NEW h, NEW b, Stored(h, h.buffer[b])
  PROVE  Content(h, b) \in Block(h.buffer[b].size) /\ h.buffer[b].size \in Lengths
<1> DEFINE s == h.buffer[b]
<1>1. s.offset \in Nat /\ s.size \in Nat /\ s.size \in Lengths
  BY LengthIsNat DEF Stored, Lengths
<1>2. PICK n \in Lengths : h.memory[s.owner] \in Block(n) /\ s.offset + s.size <= n
  BY DEF Stored
<1>3. n \in Nat
  BY LengthIsNat DEF Lengths
<1> PICK o \in Nat, z \in Nat : o = s.offset /\ z = s.size
  BY <1>1
<1> PICK m : m = h.memory[s.owner]
  OBVIOUS
<1>4. \A k \in 0 .. z - 1 : o + k \in 0 .. n - 1
  BY <1>2, <1>3
<1>5. Content(h, b) = [k \in 0 .. z - 1 |-> m[o + k]]
  BY DEF Content
<1>6. \A k \in 0 .. z - 1 : m[o + k] \in Values
  BY <1>2, <1>4 DEF Block
<1> QED
  BY <1>1, <1>5, <1>6 DEF Block

LEMMA ViewTyped ==
  ASSUME NEW h, NEW r, Fits(h, r)
  PROVE  ViewOf(h, r) \in Block(r.size)
<1> PICK m : m = Content(h, r.base)
  OBVIOUS
<1>1. /\ r.offset \in Nat /\ r.size \in Nat /\ h.buffer[r.base].size \in Nat
      /\ r.offset + r.size <= h.buffer[r.base].size /\ m \in Block(h.buffer[r.base].size)
  BY LengthIsNat, ContentTyped DEF Fits, Lengths
<1> PICK o \in Nat, z \in Nat, n \in Nat : o = r.offset /\ z = r.size /\ n = h.buffer[r.base].size
  BY <1>1
<1>2. \A k \in 0 .. z - 1 : o + k \in 0 .. n - 1
  BY <1>1
<1>3. \A k \in 0 .. z - 1 : m[o + k] \in Values
  BY <1>1, <1>2 DEF Block
<1> QED
  BY <1>3 DEF Block, ViewOf

\* Heap g is heap h with a new owner o of e, of which buffer b is all.
MadeNew(h, g, b, o, e, x, size) ==
  LET s == [owner |-> o, offset |-> 0, size |-> size]
  IN  /\ g.buffer = [h.buffer EXCEPT ![b] = s] /\ g.memory = [h.memory EXCEPT ![o] = e]
      /\ g.exposed = [h.exposed EXCEPT ![o] = x]
      /\ g.memory \in [Owners -> Blocks \cup {None}]
      /\ g.buffer[b] = s /\ g.memory[o] = e
      /\ Stored(g, s) /\ Content(g, b) = e

LEMMA NewContent ==
  ASSUME NEW h, h.buffer \in [Buffers -> BufferType \cup {None}],
         h.memory \in [Owners -> Blocks \cup {None}],
         NEW b \in Buffers, NEW o \in Owners, NEW size \in Lengths, NEW e \in Block(size), NEW x
  PROVE  MadeNew(h, NewBuffer(h, b, o, e, x, size), b, o, e, x, size)
<1> PICK g : g = NewBuffer(h, b, o, e, x, size)
  OBVIOUS
<1> PICK s : s = [owner |-> o, offset |-> 0, size |-> size]
  OBVIOUS
<1>1. /\ g.buffer = [h.buffer EXCEPT ![b] = s] /\ g.memory = [h.memory EXCEPT ![o] = e]
      /\ g.exposed = [h.exposed EXCEPT ![o] = x]
  BY DEF NewBuffer, AddSlice, AddOwner
<1>2. g.buffer[b] = s /\ g.memory[o] = e
  BY <1>1
<1>3. g.memory \in [Owners -> Blocks \cup {None}]
  BY <1>1 DEF Blocks
<1>4. size \in Nat /\ 0 \in Lengths
  BY LengthIsNat DEF Lengths
<1>5. s \in [owner : Owners, offset : Lengths, size : Lengths] /\ s.offset + s.size <= size
  BY <1>4
<1>6. Stored(g, s)
  BY <1>2, <1>5 DEF Stored
<1>7. Content(g, b) = e
  <2>1. Content(g, b) = [k \in 0 .. size - 1 |-> e[0 + k]]
    BY <1>2 DEF Content
  <2>2. \A k \in 0 .. size - 1 : 0 + k = k
    BY <1>4
  <2>3. Content(g, b) = [k \in 0 .. size - 1 |-> e[k]]
    BY <2>1, <2>2
  <2> QED
    BY <2>3 DEF Block
<1> QED
  BY <1>1, <1>2, <1>3, <1>6, <1>7 DEF MadeNew

-----------------------------------------------------------------------------
(* Commit. *)

LEMMA Committed ==
  ASSUME NEW h, Commit(h), NEW c \in Columns, Live(c)', NEW r \in ColumnType, column'[c] = r,
         Fits(h, r)
  PROVE  /\ Fits(Heap', r) /\ View(c)' = ViewOf(h, r)
         /\ buffer'[r.base] = h.buffer[r.base]
<1>1. r.base \in Buffers /\ r.base \in Kept' /\ (r.data # None => r.data \in Buffers /\ r.data \in Kept')
  BY DEF Live, Kept, Holders, ColumnType
<1>2. buffer'[r.base] = h.buffer[r.base] /\ (r.data # None => buffer'[r.data] = h.buffer[r.data])
  BY <1>1 DEF Commit
<1> PICK o : o = h.buffer[r.base].owner
  OBVIOUS
<1>3. o \in Owners
  BY DEF Fits, Stored
<1>4. memory'[o] = h.memory[o]
  BY <1>1, <1>3 DEF Commit
<1>5. Heap'.buffer = buffer' /\ Heap'.memory = memory'
  BY DEF Heap
<1> PICK g : g = Heap'
  OBVIOUS
<1>6. Fits(g, r) /\ ViewOf(g, r) = ViewOf(h, r)
  BY <1>2, <1>4, <1>5, SameView
<1>7. View(c)' = ViewOf(Heap', r)
  BY DEF View, ViewOf
<1> QED
  BY <1>2, <1>6, <1>7

\* A column that the call is not about: heap h has its buffers as they are.
SameIn(h, d) ==
  LET q == column[d] IN
  /\ h.buffer[q.base] = buffer[q.base]
  /\ q.data # None => h.buffer[q.data] = buffer[q.data]
  /\ h.memory[buffer[q.base].owner] = memory[buffer[q.base].owner]

Stays(d) ==
  /\ Live(d)' /\ column'[d] = column[d] /\ Fits(Heap', column[d]) /\ View(d)' = View(d)
  /\ buffer'[column[d].base] = buffer[column[d].base]

LEMMA StaysAsItIs ==
  ASSUME VInv, NEW d \in Columns, Live(d), column'[d] = column[d], NEW h, Commit(h), SameIn(h, d)
  PROVE  Stays(d)
<1> PICK q : q = column[d]
  OBVIOUS
<1>1. Fits(Heap, q) /\ q \in ColumnType /\ column'[d] = q /\ Live(d)'
  BY Referred DEF VInv, Live
<1>2. Heap.buffer = buffer /\ Heap.memory = memory
  BY DEF Heap
<1>3. Fits(h, q) /\ ViewOf(h, q) = ViewOf(Heap, q)
  BY <1>1, <1>2, SameView DEF SameIn
<1>4. Fits(Heap', q) /\ View(d)' = ViewOf(h, q) /\ buffer'[q.base] = h.buffer[q.base]
  BY <1>1, <1>3, Committed
<1>5. View(d) = ViewOf(Heap, q)
  BY DEF View, ViewOf
<1> QED
  BY <1>1, <1>3, <1>4, <1>5 DEF SameIn, Stays

LEMMA CommitStorage ==
  ASSUME NEW h, Commit(h), h.memory \in [Owners -> Blocks \cup {None}], UNCHANGED program, Storage
  PROVE  Storage'
<1>1. memory' \in [Owners -> Blocks \cup {None}]
  BY DEF Commit
<1>2. exposed' \in [Owners -> BOOLEAN]
  BY DEF Commit
<1> QED
  BY <1>1, <1>2 DEF Storage

-----------------------------------------------------------------------------
(* A call of one column. *)

\* Heap h differs from the heap in what is new or of column c.
OnlyOwn(h, c) ==
  /\ \A q \in LiveBuffers \ Mine(c) :
       h.buffer[q] = buffer[q] /\ h.memory[buffer[q].owner] = memory[buffer[q].owner]
  /\ h.memory \in [Owners -> Blocks \cup {None}]
  /\ \A x \in Held : /\ h.exposed[array[x].owner] = exposed[array[x].owner]
                     /\ h.memory[array[x].owner] \in Block(Length)

\* Record r of column c is in no adopted memory but that which c was in.
NotAdopted(h, c, r) ==
  \A x \in Held : h.buffer[r.base].owner = array[x].owner =>
    Live(c) /\ buffer[column[c].base].owner = array[x].owner

LEMMA Others ==
  ASSUME IInv, NEW c \in Columns, NEW d \in Columns \ {c}, Live(d)
  PROVE  /\ column[d].base \in LiveBuffers \ Mine(c)
         /\ column[d].data # None => column[d].data \in LiveBuffers \ Mine(c)
<1>1. /\ column[d].base \in LiveBuffers /\ (column[d].data = None \/ column[d].data \in LiveBuffers)
      /\ None \notin LiveBuffers
  BY Referred, NamesAreApart DEF LiveBuffers
<1>2. CASE Live(c)
  <2>1. /\ column[d].base \notin {column[c].base, column[c].data}
        /\ column[c].base \notin {column[d].base, column[d].data}
        /\ column[d].data # None => column[d].data # column[c].data
    BY <1>2 DEF IInv, Places, Separate
  <2> QED
    BY <1>1, <1>2, <2>1 DEF Mine
<1>3. CASE ~Live(c)
  BY <1>1, <1>3 DEF Mine
<1> QED
  BY <1>2, <1>3

\* Adopted memory is of nobody's owner but the columns that the invariant names.
LEMMA LentColumns ==
  ASSUME VInv, NEW x \in Held
  PROVE  /\ x \in Arrays /\ array[x] # None /\ array[x].owner \in Owners /\ Adopted(x)
         /\ \A c \in Columns : Live(c) /\ buffer[column[c].base].owner = array[x].owner =>
              c \in LentNow
<1>1. x \in Arrays /\ array[x] # None /\ Adopted(x)
  BY DEF VInv, Held
<1>2. array[x].owner \in Owners
  BY <1>1 DEF VInv, IInv, Places, ArrayType
<1> QED
  BY <1>1, <1>2 DEF Adopted, LentNow, Live

\* The call gives column c the value e, and may take it out of a third party's reach.
Gives(c, e) ==
  /\ VInv' /\ ValueNow' = [ValueNow EXCEPT ![c] = e]
  /\ LentNow' \in {LentNow, LentNow \ {c}}
  /\ ~Live(c) => LentNow' = LentNow

LEMMA CallKeeps ==
  ASSUME VInv, IInv', NEW c \in Columns, NEW r \in ColumnType, column' = [column EXCEPT ![c] = r],
         UNCHANGED <<array, program>>, NEW h, Commit(h), Fits(h, r), OnlyOwn(h, c), NotAdopted(h, c, r)
  PROVE  Gives(c, ViewOf(h, r))
<1>1. column'[c] = r /\ Live(c)' /\ \A d \in Columns \ {c} : column'[d] = column[d]
  BY NamesAreApart DEF VInv, IInv, Places, Live
<1>2. Fits(Heap', r) /\ View(c)' = ViewOf(h, r) /\ buffer'[r.base] = h.buffer[r.base]
  BY <1>1, Committed
<1>3. ASSUME NEW d \in Columns \ {c}, Live(d) PROVE Stays(d)
  <2> PICK q : q = column[d]
    OBVIOUS
  <2>1. q.base \in LiveBuffers \ Mine(c) /\ (q.data # None => q.data \in LiveBuffers \ Mine(c))
    BY <1>3, Others DEF VInv
  <2>2. SameIn(h, d)
    BY <2>1 DEF SameIn, OnlyOwn
  <2> QED
    BY <1>1, <1>3, <2>2, StaysAsItIs
<1>4. Storage'
  BY CommitStorage DEF VInv, OnlyOwn
<1>5. \A d \in Columns : Live(d)' => Fits(Heap, column[d])'
  <2> SUFFICES ASSUME NEW d \in Columns, Live(d)' PROVE Fits(Heap', column'[d])
    BY DEF Fits, Stored
  <2> QED
    BY <1>1, <1>2, <1>3 DEF Live, Stays
<1>6. ASSUME NEW x \in Held, NEW d \in Columns, Live(d)', buffer'[column'[d].base].owner = array[x].owner
      PROVE  Live(d) /\ buffer[column[d].base].owner = array[x].owner
  BY <1>1, <1>2, <1>3, <1>6 DEF NotAdopted, Live, Stays
<1>7. ASSUME NEW x \in Held PROVE Adopted(x)'
  <2> PICK a : a = array[x]
    OBVIOUS
  <2> PICK o : o = a.owner
    OBVIOUS
  <2>1. /\ x \in Arrays /\ a # None /\ o \in Owners /\ Adopted(x)
    BY LentColumns
  <2>2. "slice" \notin program /\ a.keeps = o /\ a.offset = 0 /\ a.size = Length
        /\ exposed[o] /\ (a.of # None => Live(a.of))
    BY <2>1 DEF Adopted
  <2>3. o \in Owners \cap Kept'
    BY <2>1, <2>2 DEF Kept, Held
  <2>4. memory'[o] = h.memory[o] /\ (exposed'[o] <=> h.exposed[o])
    BY <2>3 DEF Commit
  <2>5. h.exposed[o] /\ h.memory[o] \in Block(Length)
    BY <2>2 DEF OnlyOwn
  <2>6. a.of # None => Live(a.of)'
    BY <1>1, <2>1, <2>2 DEF Live, VInv, IInv, Places, ArrayType
  <2>7. \A d \in Columns : Live(d)' /\ buffer'[column'[d].base].owner = o => a.of = d
    BY <1>6, <2>1 DEF Adopted
  <2>8. array'[x] = a
    OBVIOUS
  <2> QED
    BY <2>2, <2>4, <2>5, <2>6, <2>7, <2>8 DEF Adopted
<1>8. VInv'
  BY <1>4, <1>5, <1>7 DEF VInv, Held
<1>9. ValueNow' = [ValueNow EXCEPT ![c] = ViewOf(h, r)]
  <2>1. ASSUME NEW d \in Columns
        PROVE  (IF column'[d] = None THEN None ELSE View(d)')
                 = IF d = c THEN ViewOf(h, r) ELSE IF column[d] = None THEN None ELSE View(d)
    BY <1>1, <1>2, <1>3 DEF Live, Stays
  <2>2. ValueNow' = [d \in Columns |-> IF column'[d] = None THEN None ELSE View(d)']
    BY DEF ValueNow
  <2>3. ValueNow = [d \in Columns |-> IF column[d] = None THEN None ELSE View(d)]
    BY DEF ValueNow
  <2> QED
    BY <2>1, <2>2, <2>3
<1>10. \A d \in Columns \ {c} : d \in LentNow' <=> d \in LentNow
  BY <1>1, <1>3 DEF LentNow, Live, Stays
<1>11. c \in LentNow' => Live(c) /\ c \in LentNow
  <2> SUFFICES ASSUME c \in LentNow' PROVE Live(c) /\ c \in LentNow
    OBVIOUS
  <2>1. PICK x \in Held : array[x].owner = buffer'[column'[c].base].owner
    BY DEF LentNow, Held
  <2> QED
    BY <1>1, <1>6, <2>1, LentColumns
<1>12. ~Live(c) => c \notin LentNow
  BY DEF LentNow, Live
<1>13. LentNow \subseteq Columns /\ LentNow' \subseteq Columns
  BY DEF LentNow
<1> HIDE DEF LentNow
<1> QED
  BY <1>8, <1>9, <1>10, <1>11, <1>12, <1>13 DEF Gives

-----------------------------------------------------------------------------
(* The calls. *)

LEMMA HeapTypes ==
  ASSUME VInv
  PROVE  /\ Heap.buffer = buffer /\ Heap.memory = memory /\ Heap.exposed = exposed
         /\ Heap.buffer \in [Buffers -> BufferType \cup {None}]
         /\ Heap.memory \in [Owners -> Blocks \cup {None}] /\ Heap.exposed \in [Owners -> BOOLEAN]
BY DEF Heap, VInv, IInv, Sound, Storage

LEMMA NewNames ==
  ASSUME VInv, Room
  PROVE  /\ NextBuffer \in Buffers \ LiveBuffers /\ NextBuffer # None /\ NextOwner \in Owners
         /\ \A q \in LiveBuffers : buffer[q].owner # NextOwner
         /\ \A x \in Held : array[x].owner # NextOwner
<1>1. NextBuffer \in Buffers \ LiveBuffers /\ NextOwner \in Owners /\ Vacant(Heap, NextOwner, LiveBuffers)
  BY Identities DEF VInv
<1>2. NextOwner \in FreeOwners
  BY DEF Room, NextOwner
<1> QED
  BY <1>1, <1>2, NamesAreApart DEF Vacant, Heap, FreeOwners

\* A new owner changes nothing that is there.
AddsOwner(h, c, b, e, size) ==
  LET s == [owner |-> NextOwner, offset |-> 0, size |-> size]
  IN  /\ OnlyOwn(h, c) /\ h.buffer[b] = s /\ Stored(h, s) /\ Content(h, b) = e
      /\ h.buffer = [buffer EXCEPT ![b] = s] /\ h.memory = [memory EXCEPT ![NextOwner] = e]
      /\ \A y \in Held : array[y].owner # NextOwner

LEMMA NewOnlyOwn ==
  ASSUME VInv, Room, NEW c \in Columns, NEW size \in Lengths, NEW e \in Block(size), NEW x,
         NEW b \in Buffers \ (LiveBuffers \ Mine(c))
  PROVE  AddsOwner(NewBuffer(Heap, b, NextOwner, e, x, size), c, b, e, size)
<1> DEFINE h == NewBuffer(Heap, b, NextOwner, e, x, size)
<1> PICK s : s = [owner |-> NextOwner, offset |-> 0, size |-> size]
  OBVIOUS
<1>1. /\ b \in Buffers /\ NextOwner \in Owners
      /\ \A q \in LiveBuffers : buffer[q].owner # NextOwner
      /\ \A y \in Held : array[y].owner # NextOwner
  BY NewNames
<1>2. /\ Heap.buffer = buffer /\ Heap.memory = memory /\ Heap.exposed = exposed
      /\ Heap.buffer \in [Buffers -> BufferType \cup {None}]
      /\ Heap.memory \in [Owners -> Blocks \cup {None}] /\ Heap.exposed \in [Owners -> BOOLEAN]
  BY HeapTypes
<1>3. /\ h.buffer = [buffer EXCEPT ![b] = s] /\ h.memory = [memory EXCEPT ![NextOwner] = e]
      /\ h.exposed = [exposed EXCEPT ![NextOwner] = x]
      /\ h.memory \in [Owners -> Blocks \cup {None}]
      /\ h.buffer[b] = s /\ Stored(h, s) /\ Content(h, b) = e
  <2>1. MadeNew(Heap, h, b, NextOwner, e, x, size)
    BY <1>1, <1>2, NewContent
  <2> HIDE DEF h
  <2> QED
    BY <1>2, <2>1 DEF MadeNew
<1> HIDE DEF h
<1>4. \A q \in LiveBuffers : buffer[q].owner \in Owners
  BY DEF VInv, IInv, Sound, Heap, BufferType
<1>5. \A q \in LiveBuffers \ Mine(c) : h.buffer[q] = buffer[q] /\ h.memory[buffer[q].owner] = memory[buffer[q].owner]
  BY <1>1, <1>2, <1>3, <1>4 DEF LiveBuffers
<1>6. ASSUME NEW y \in Held
      PROVE  /\ h.exposed[array[y].owner] = exposed[array[y].owner]
             /\ h.memory[array[y].owner] \in Block(Length)
  <2> PICK o : o = array[y].owner
    OBVIOUS
  <2>1. o \in Owners /\ o # NextOwner /\ memory[o] \in Block(Length)
    BY <1>1, LentColumns DEF Adopted
  <2>2. h.exposed[o] = exposed[o] /\ h.memory[o] = memory[o]
    BY <1>2, <1>3, <2>1
  <2> QED
    BY <2>1, <2>2
<1>7. OnlyOwn(h, c)
  BY <1>3, <1>5, <1>6 DEF OnlyOwn
<1>8. AddsOwner(h, c, b, e, size)
  BY <1>1, <1>3, <1>7 DEF AddsOwner
<1> QED
  BY <1>8 DEF h

\* Nor does a new slice.
AddsSlice(h, c, s) ==
  /\ OnlyOwn(h, c) /\ h.memory = memory
  /\ h.buffer = [buffer EXCEPT ![NextBuffer] = s] /\ h.buffer[NextBuffer] = s

LEMMA SliceOnlyOwn ==
  ASSUME VInv, Room, NEW c \in Columns, NEW o, NEW offset, NEW size
  PROVE  AddsSlice(AddSlice(Heap, NextBuffer, o, offset, size), c,
                   [owner |-> o, offset |-> offset, size |-> size])
<1> DEFINE h == AddSlice(Heap, NextBuffer, o, offset, size)
<1> PICK s : s = [owner |-> o, offset |-> offset, size |-> size]
  OBVIOUS
<1>1. NextBuffer \in Buffers \ LiveBuffers
  BY NewNames
<1>2. /\ Heap.buffer = buffer /\ Heap.memory = memory /\ Heap.exposed = exposed
      /\ Heap.buffer \in [Buffers -> BufferType \cup {None}]
      /\ Heap.memory \in [Owners -> Blocks \cup {None}] /\ Heap.exposed \in [Owners -> BOOLEAN]
  BY HeapTypes
<1>3. h.buffer = [buffer EXCEPT ![NextBuffer] = s] /\ h.memory = memory /\ h.exposed = exposed
  BY <1>2 DEF AddSlice
<1> HIDE DEF h
<1>4. \A q \in LiveBuffers : h.buffer[q] = buffer[q]
  BY <1>1, <1>2, <1>3 DEF LiveBuffers
<1>5. \A x \in Held : h.memory[array[x].owner] \in Block(Length)
  BY <1>3, LentColumns DEF Adopted
<1>6. OnlyOwn(h, c)
  BY <1>2, <1>3, <1>4, <1>5 DEF OnlyOwn
<1>7. h.buffer[NextBuffer] = s
  BY <1>1, <1>2, <1>3
<1>8. AddsSlice(h, c, s)
  BY <1>3, <1>6, <1>7 DEF AddsSlice
<1> QED
  BY <1>8 DEF h

\* A live column fits, its buffers are live, and what it shows are values.
LEMMA Shown ==
  ASSUME VInv, NEW c \in Columns, Live(c)
  PROVE  /\ column[c] \in ColumnType /\ Fits(Heap, column[c])
         /\ column[c].base \in LiveBuffers
         /\ View(c) = ViewOf(Heap, column[c]) /\ View(c) \in Block(column[c].size)
         /\ column[c].size \in Lengths /\ ValueNow[c] = View(c)
<1>1. column[c] \in ColumnType /\ column[c].base \in LiveBuffers
  BY Referred DEF VInv
<1>2. Fits(Heap, column[c])
  BY DEF VInv
<1>3. View(c) = ViewOf(Heap, column[c])
  BY DEF View, ViewOf
<1>4. ViewOf(Heap, column[c]) \in Block(column[c].size) /\ column[c].size \in Lengths
  BY <1>2, ViewTyped DEF Fits
<1>5. ValueNow[c] = View(c)
  BY DEF ValueNow, Live
<1> QED
  BY <1>1, <1>2, <1>3, <1>4, <1>5

\* New elements for column d.
LEMMA ElementsKeep ==
  ASSUME VInv, IInv', Room, NEW d \in Columns, NEW size \in Lengths, NEW e \in Block(size),
         column' = [column EXCEPT ![d] = Whole(NextBuffer, size)], UNCHANGED <<array, program>>,
         Commit(NewBuffer(Heap, NextBuffer, NextOwner, e, FALSE, size))
  PROVE  Gives(d, e)
<1> PICK h : h = NewBuffer(Heap, NextBuffer, NextOwner, e, FALSE, size)
  OBVIOUS
<1> PICK b : b = NextBuffer
  OBVIOUS
<1> PICK s : s = [owner |-> NextOwner, offset |-> 0, size |-> size]
  OBVIOUS
<1> PICK r : r = [base |-> b, data |-> None, offset |-> 0, size |-> size]
  OBVIOUS
<1>1. /\ OnlyOwn(h, d) /\ h.buffer[b] = s /\ Stored(h, s) /\ Content(h, b) = e
      /\ \A x \in Held : array[x].owner # NextOwner
  <2>1. b \in Buffers \ (LiveBuffers \ Mine(d))
    BY NewNames
  <2>2. AddsOwner(h, d, b, e, size)
    BY <2>1, NewOnlyOwn
  <2> QED
    BY <2>2 DEF AddsOwner
<1>0. /\ r.base = b /\ r.data = None /\ r.offset = 0 /\ r.size = size
      /\ s.owner = NextOwner /\ s.offset = 0 /\ s.size = size
  OBVIOUS
<1>2. b \in Buffers /\ size \in Nat /\ 0 \in Lengths
  BY NewNames, LengthIsNat DEF Lengths
<1>3. r \in ColumnType /\ column' = [column EXCEPT ![d] = r]
  BY <1>2 DEF ColumnType, Whole
<1>4. Fits(h, r)
  <2>1. 0 + size <= size
    BY <1>2
  <2> QED
    BY <1>0, <1>1, <1>2, <2>1 DEF Fits
<1>5. ViewOf(h, r) = e
  <2>1. ViewOf(h, r) = [k \in 0 .. size - 1 |-> e[0 + k]]
    BY <1>0, <1>1 DEF ViewOf
  <2>2. \A k \in 0 .. size - 1 : 0 + k = k
    BY <1>2
  <2>3. ViewOf(h, r) = [k \in 0 .. size - 1 |-> e[k]]
    BY <2>1, <2>2
  <2> QED
    BY <2>3 DEF Block
<1>6. NotAdopted(h, d, r)
  BY <1>0, <1>1 DEF NotAdopted
<1>7. Commit(h)
  OBVIOUS
<1>8. Gives(d, ViewOf(h, r))
  BY <1>7, <1>1, <1>3, <1>4, <1>6, CallKeeps
<1> QED
  BY <1>8, <1>5

LEMMA CreateGives ==
  ASSUME VInv, NEW d \in Columns, NEW m \in Fresh, Create(d, m), UNCHANGED program
  PROVE  Gives(d, m) /\ ~Live(d) /\ m \in Block(Length)
<1>1. /\ Room /\ ~Live(d) /\ column' = [column EXCEPT ![d] = Whole(NextBuffer, Length)]
      /\ UNCHANGED <<array, program>>
      /\ Commit(NewBuffer(Heap, NextBuffer, NextOwner, m, FALSE, Length))
  BY DEF Create, FromElements, Into, Live
<1>2. Length \in Int /\ Length \in Lengths /\ m \in Block(Length)
  BY LengthIsNat, FreshAreElements DEF Lengths, Block
<1>3. IInv'
  BY <1>2, FromElementsStep DEF Create, VInv
<1> QED
  BY <1>1, <1>2, <1>3, ElementsKeep

LEMMA CopyDeepGives ==
  ASSUME VInv, NEW c \in Columns, NEW d \in Columns, CopyDeep(c, d), UNCHANGED program
  PROVE  Gives(d, View(c)) /\ Live(c) /\ ~Live(d)
<1> PICK e : e = View(c)
  OBVIOUS
<1> PICK n : n = column[c].size
  OBVIOUS
<1>1. /\ Room /\ Live(c) /\ ~Live(d) /\ column' = [column EXCEPT ![d] = Whole(NextBuffer, n)]
      /\ UNCHANGED <<array, program>>
      /\ Commit(NewBuffer(Heap, NextBuffer, NextOwner, e, FALSE, n))
  BY DEF CopyDeep, Call, FromElements, Into, Live
<1>2. n \in Lengths /\ e \in Block(n)
  BY <1>1, Shown
<1>3. n \in Int
  BY <1>2, LengthIsNat DEF Lengths
<1>4. IInv'
  BY <1>1, <1>3, FromElementsStep DEF CopyDeep, VInv
<1> QED
  BY <1>1, <1>2, <1>4, ElementsKeep

LEMMA ScatterGives ==
  ASSUME VInv, NEW c \in Columns, NEW k \in Nat, NEW v \in Values, Scatter(c, k, v),
         UNCHANGED program
  PROVE  Gives(c, [View(c) EXCEPT ![k] = v]) /\ Live(c) /\ k < column[c].size
<1> PICK n : n = column[c].size
  OBVIOUS
<1> PICK e : e = [View(c) EXCEPT ![k] = v]
  OBVIOUS
<1>1. /\ Room /\ Live(c) /\ k < n /\ column' = [column EXCEPT ![c] = Whole(NextBuffer, n)]
      /\ UNCHANGED <<array, program>>
      /\ Commit(NewBuffer(Heap, NextBuffer, NextOwner, e, FALSE, n))
  BY DEF Scatter, Call, Live
<1>2. n \in Lengths /\ View(c) \in Block(n)
  BY <1>1, Shown
<1>3. e \in Block(n)
  BY <1>2 DEF Block
<1>4. IInv'
  BY ScatterStep DEF VInv
<1> QED
  BY <1>1, <1>2, <1>3, <1>4, ElementsKeep

\* A column's numbers, apart from the records they are in.
LEMMA Numbers ==
  ASSUME VInv, NEW c \in Columns, Live(c)
  PROVE  \E s \in BufferType, o \in Nat, z \in Nat :
           /\ s = buffer[column[c].base] /\ o = column[c].offset /\ z = column[c].size
           /\ Stored(Heap, s) /\ s.owner \in Owners /\ s.offset \in Nat /\ s.size \in Lengths
           /\ o \in Lengths /\ z \in Lengths /\ o + z <= s.size
           /\ column[c].data # None =>
                buffer[column[c].data] = [owner |-> s.owner, offset |-> s.offset + o, size |-> z]
<1>1. Fits(Heap, column[c])
  BY DEF VInv
<1>2. Lengths \subseteq Nat /\ Lengths \subseteq Int
  BY LengthIsNat DEF Lengths
<1>3. buffer[column[c].base] \in BufferType
  BY <1>1, <1>2 DEF Fits, Heap, Stored, BufferType
<1> QED
  BY <1>1, <1>2, <1>3 DEF Fits, Heap, Stored

LEMMA CopyGives ==
  ASSUME VInv, NEW c \in Columns, NEW d \in Columns, Copy(c, d), UNCHANGED program
  PROVE  Gives(d, View(c)) /\ Live(c) /\ ~Live(d)
<1> PICK b : b = NextBuffer
  OBVIOUS
<1> PICK h : h = CopyBuffer(Heap, column[c].base, b, NextOwner)
  OBVIOUS
<1> PICK r : r = [column[c] EXCEPT !.base = b, !.data = None]
  OBVIOUS
<1>1. /\ Room /\ Live(c) /\ ~Live(d) /\ column' = [column EXCEPT ![d] = r]
      /\ UNCHANGED <<array, program>> /\ Commit(h)
  BY DEF Copy, Call, Into, Live
<1>2. IInv'
  BY CopyStep DEF VInv
<1> PICK s \in BufferType, o \in Nat, z \in Nat :
      /\ s = buffer[column[c].base] /\ o = column[c].offset /\ z = column[c].size
      /\ Stored(Heap, s) /\ s.owner \in Owners /\ s.offset \in Nat /\ s.size \in Lengths
      /\ o \in Lengths /\ z \in Lengths /\ o + z <= s.size
  BY <1>1, Numbers
<1>3. /\ column[c] \in ColumnType /\ column[c].base \in LiveBuffers
      /\ View(c) = ViewOf(Heap, column[c])
  BY <1>1, Shown
<1>4. b \in Buffers \ (LiveBuffers \ Mine(d)) /\ b \in Buffers
  BY <1>1, NewNames
<1>5. r \in ColumnType /\ r.base = b /\ r.data = None /\ r.offset = o /\ r.size = z
  BY <1>3, <1>4 DEF ColumnType
<1> PICK e : e = Content(Heap, column[c].base)
  OBVIOUS
<1>6. Heap.buffer = buffer /\ Heap.memory = memory /\ Heap.exposed = exposed
  BY DEF Heap
<1>7. e \in Block(s.size)
  BY <1>6, ContentTyped
<1>8. /\ OnlyOwn(h, d) /\ Stored(h, h.buffer[b]) /\ h.buffer[b].size = s.size
      /\ Content(h, b) = e /\ \A x \in Held : h.buffer[b].owner # array[x].owner
  <2>1. CASE exposed[s.owner]
    <3>1. h = NewBuffer(Heap, b, NextOwner, e, FALSE, s.size)
      BY <2>1, <1>6 DEF CopyBuffer
    <3>2. AddsOwner(h, d, b, e, s.size)
      BY <1>1, <1>4, <1>7, <3>1, NewOnlyOwn
    <3> QED
      BY <3>2 DEF AddsOwner
  <2>2. CASE ~exposed[s.owner]
    <3> PICK t : t = [owner |-> s.owner, offset |-> s.offset, size |-> s.size]
      OBVIOUS
    <3>1. h = AddSlice(Heap, b, s.owner, s.offset, s.size) /\ t = s
      BY <2>2, <1>6 DEF CopyBuffer, BufferType
    <3>2. AddsSlice(h, d, s)
      BY <1>1, <3>1, SliceOnlyOwn
    <3>3. Content(h, b) = e /\ Stored(h, s)
      BY <1>6, <3>2 DEF Content, Stored, AddsSlice
    <3>4. \A x \in Held : s.owner # array[x].owner
      BY <2>2, LentColumns DEF Adopted
    <3> QED
      BY <3>2, <3>3, <3>4 DEF AddsSlice
  <2> QED
    BY <2>1, <2>2
<1>9. Fits(h, r)
  BY <1>5, <1>8 DEF Fits
<1>10. ViewOf(h, r) = View(c)
  BY <1>3, <1>5, <1>8 DEF ViewOf
<1>11. NotAdopted(h, d, r)
  BY <1>5, <1>8 DEF NotAdopted
<1>12. Gives(d, ViewOf(h, r))
  BY <1>1, <1>2, <1>5, <1>8, <1>9, <1>11, CallKeeps
<1> QED
  BY <1>1, <1>10, <1>12

LEMMA SliceGives ==
  ASSUME VInv, NEW c \in Columns, NEW d \in Columns, NEW i \in Nat, NEW j \in Nat,
         Slice(c, d, i, j), UNCHANGED program
  PROVE  /\ Gives(d, [k \in 0 .. j - i - 1 |-> View(c)[i + k]]) /\ Live(c) /\ ~Live(d)
         /\ i < j /\ j <= column[c].size
<1> PICK b : b = NextBuffer
  OBVIOUS
<1>1. i \in Int /\ j \in Int
  OBVIOUS
<1>2. /\ Room /\ Live(c) /\ ~Live(d) /\ i < j /\ j <= column[c].size
      /\ UNCHANGED <<array, program>> /\ "slice" \in program
  BY DEF Slice, Call, Into, Live
<1>3. IInv'
  BY <1>1, SliceStep DEF VInv
<1> PICK s \in BufferType, o \in Nat, z \in Nat :
      /\ s = buffer[column[c].base] /\ o = column[c].offset /\ z = column[c].size
      /\ Stored(Heap, s) /\ s.owner \in Owners /\ s.offset \in Nat /\ s.size \in Lengths
      /\ o \in Lengths /\ z \in Lengths /\ o + z <= s.size
  BY <1>2, Numbers
<1> PICK n \in Nat : n = s.size
  BY LengthIsNat DEF Lengths
<1> PICK r : r = [base |-> b, data |-> None, offset |-> o + i, size |-> j - i]
  OBVIOUS
<1> PICK h : h = AddSlice(Heap, b, s.owner, s.offset, s.size)
  OBVIOUS
<1>4. column' = [column EXCEPT ![d] = r] /\ Commit(h)
  BY DEF Slice, Into
<1>5. View(c) = ViewOf(Heap, column[c])
  BY <1>2, Shown
<1>6. b \in Buffers
  BY <1>2, NewNames
<1>7. r.base = b /\ r.data = None /\ r.offset = o + i /\ r.size = j - i
  OBVIOUS
<1>8. r \in ColumnType
  BY <1>6 DEF ColumnType
<1>9. s = [owner |-> s.owner, offset |-> s.offset, size |-> s.size]
  BY DEF BufferType
<1>10. OnlyOwn(h, d) /\ h.memory = memory /\ h.buffer[b] = s
  <2>1. AddsSlice(h, d, s)
    BY <1>2, <1>9, SliceOnlyOwn
  <2> QED
    BY <2>1 DEF AddsSlice
<1>11. Heap.buffer = buffer /\ Heap.memory = memory
  BY DEF Heap
<1> PICK e : e = Content(Heap, column[c].base)
  OBVIOUS
<1>12. Content(h, b) = e /\ Stored(h, s)
  BY <1>10, <1>11 DEF Content, Stored
<1>13. Fits(h, r)
  <2>1. j <= z /\ o + z <= n /\ n <= Length /\ Length \in Nat
    BY <1>2, LengthIsNat DEF Lengths
  <2>2. o + i \in 0 .. Length /\ j - i \in 0 .. Length /\ (o + i) + (j - i) <= n
    BY <1>2, <2>1
  <2> QED
    BY <1>7, <1>10, <1>12, <2>2 DEF Fits, Lengths
<1>14. ViewOf(h, r) = [k \in 0 .. j - i - 1 |-> View(c)[i + k]]
  <2>1. ViewOf(h, r) = [k \in 0 .. j - i - 1 |-> e[(o + i) + k]]
    BY <1>7, <1>12 DEF ViewOf
  <2>2. View(c) = [k \in 0 .. z - 1 |-> e[o + k]]
    BY <1>5 DEF ViewOf
  <2>3. \A k \in 0 .. j - i - 1 : i + k \in 0 .. z - 1 /\ (o + i) + k = o + (i + k)
    BY <1>2
  <2>4. \A k \in 0 .. j - i - 1 : View(c)[i + k] = e[(o + i) + k]
    BY <2>2, <2>3
  <2> QED
    BY <2>1, <2>4
<1>15. NotAdopted(h, d, r)
  <2>1. Held = {}
    BY <1>2, LentColumns DEF Adopted
  <2> QED
    BY <2>1 DEF NotAdopted
<1>16. Gives(d, ViewOf(h, r))
  BY <1>2, <1>3, <1>4, <1>8, <1>10, <1>13, <1>15, CallKeeps
<1> QED
  BY <1>2, <1>14, <1>16

\* The heap as it is, for a call that leaves it.
LEMMA HeapOnlyOwn ==
  ASSUME VInv, NEW c \in Columns
  PROVE  OnlyOwn(Heap, c)
BY HeapTypes, LentColumns DEF OnlyOwn, Adopted

LEMMA ReadDataGives ==
  ASSUME VInv, NEW c \in Columns, ReadData(c), UNCHANGED program
  PROVE  Gives(c, View(c)) /\ Live(c)
<1> PICK b : b = DataBuffer(c)
  OBVIOUS
<1> PICK h : h = WithData(c)
  OBVIOUS
<1>1. /\ Room /\ Live(c) /\ column' = [column EXCEPT ![c].data = b]
      /\ UNCHANGED <<array, program>> /\ Commit(h)
  BY DEF ReadData, Call, Live
<1>2. IInv'
  BY ReadDataStep DEF VInv
<1> PICK s \in BufferType, o \in Nat, z \in Nat :
      /\ s = buffer[column[c].base] /\ o = column[c].offset /\ z = column[c].size
      /\ Stored(Heap, s) /\ s.owner \in Owners /\ s.offset \in Nat /\ s.size \in Lengths
      /\ o \in Lengths /\ z \in Lengths /\ o + z <= s.size
      /\ column[c].data # None =>
           buffer[column[c].data] = [owner |-> s.owner, offset |-> s.offset + o, size |-> z]
  BY <1>1, Numbers
<1> PICK n \in Nat : n = s.size
  BY LengthIsNat DEF Lengths
<1> PICK q : q = column[c]
  OBVIOUS
<1> PICK r : r = [q EXCEPT !.data = b]
  OBVIOUS
<1>3. /\ q \in ColumnType /\ q.base \in LiveBuffers /\ View(c) = ViewOf(Heap, q)
  BY <1>1, Shown
<1>4. b \in Buffers /\ b # None
  <2>1. b \in Buffers
    BY <1>1, DataIsSound DEF VInv
  <2> QED
    BY <2>1, NamesAreApart
<1>5. r \in ColumnType /\ r.base = q.base /\ r.data = b /\ r.offset = o /\ r.size = z
  BY <1>3, <1>4 DEF ColumnType
<1>6. column' = [column EXCEPT ![c] = r]
  BY <1>1
<1>7. Heap.buffer = buffer /\ Heap.memory = memory
  BY DEF Heap
<1> PICK t : t = [owner |-> s.owner, offset |-> s.offset + o, size |-> z]
  OBVIOUS
<1>8. OnlyOwn(h, c) /\ h.memory = memory /\ h.buffer[q.base] = s /\ h.buffer[b] = t
  <2>1. CASE q.data = None
    <3>1. b = NextBuffer /\ h = GetItem(Heap, q.base, b, o, o + z)
      BY <2>1 DEF DataBuffer, WithData
    <3>2. Least(o, n) = o /\ Least(o + z, n) = o + z /\ (o + z) - o = z
      BY DEF Least
    <3>3. h = AddSlice(Heap, b, s.owner, s.offset + o, z)
      BY <1>7, <3>1, <3>2 DEF GetItem
    <3>4. AddsSlice(h, c, t)
      BY <1>1, <3>1, <3>3, SliceOnlyOwn
    <3>5. b # q.base
      BY <1>1, <1>3, <3>1, NewNames
    <3>6. q.base \in Buffers /\ buffer \in [Buffers -> BufferType \cup {None}]
      BY <1>3, <1>7, HeapTypes DEF LiveBuffers
    <3> QED
      BY <3>1, <3>4, <3>5, <3>6 DEF AddsSlice
  <2>2. CASE q.data # None
    <3>1. b = q.data /\ h = Heap
      BY <2>2 DEF DataBuffer, WithData
    <3> QED
      BY <1>7, <2>2, <3>1, HeapOnlyOwn
  <2> QED
    BY <2>1, <2>2
<1>9. Stored(h, s) /\ Content(h, q.base) = Content(Heap, q.base)
  BY <1>7, <1>8 DEF Content, Stored
<1>10. Fits(h, r)
  BY <1>5, <1>8, <1>9 DEF Fits
<1>11. ViewOf(h, r) = View(c)
  BY <1>3, <1>5, <1>9 DEF ViewOf
<1>12. NotAdopted(h, c, r)
  BY <1>1, <1>5, <1>8 DEF NotAdopted
<1>13. Gives(c, ViewOf(h, r))
  BY <1>1, <1>2, <1>5, <1>6, <1>8, <1>10, <1>12, CallKeeps
<1> QED
  BY <1>1, <1>11, <1>13

\* make_single_owner_inplace: buffer b of column c, with its content, alone in its owner.
MadeSingle(h, c, b, e) ==
  /\ OnlyOwn(h, c) /\ Stored(h, h.buffer[b]) /\ Content(h, b) = e
  /\ h.buffer[b].size = buffer[b].size
  /\ Alone(h, b, LiveBuffers)
  /\ \A x \in Held : h.buffer[b].owner = array[x].owner => buffer[b].owner = array[x].owner

LEMMA SingleKeeps ==
  ASSUME VInv, Room, NEW c \in Columns, Live(c)
  PROVE  MadeSingle(MakeSingleOwner(Heap, column[c].base, NextOwner), c, column[c].base,
                    Content(Heap, column[c].base))
<1> PICK b : b = column[c].base
  OBVIOUS
<1> PICK h : h = MakeSingleOwner(Heap, b, NextOwner)
  OBVIOUS
<1> PICK e : e = Content(Heap, b)
  OBVIOUS
<1> PICK s \in BufferType : s = buffer[b] /\ Stored(Heap, s) /\ s.size \in Lengths
  BY Numbers
<1>1. b \in LiveBuffers /\ b \in Buffers /\ b \in Mine(c)
  BY Shown DEF LiveBuffers, Mine
<1>2. Heap.buffer = buffer
  BY DEF Heap
<1>3. Alone(h, b, LiveBuffers)
  BY <1>1, Identities, HeapIsSound, SingleOwner DEF VInv
<1>4. CASE Shared(Heap, b)
  <2>1. h = NewBuffer(Heap, b, NextOwner, e, FALSE, s.size)
    BY <1>2, <1>4 DEF MakeSingleOwner
  <2>2. e \in Block(s.size)
    BY <1>2, ContentTyped
  <2>3. b \in Buffers \ (LiveBuffers \ Mine(c))
    BY <1>1
  <2>4. AddsOwner(h, c, b, e, s.size)
    BY <2>1, <2>2, <2>3, NewOnlyOwn
  <2> QED
    BY <1>3, <2>4 DEF AddsOwner, MadeSingle
<1>5. CASE ~Shared(Heap, b)
  <2>1. h = Heap
    BY <1>5 DEF MakeSingleOwner
  <2>2. OnlyOwn(h, c)
    BY <2>1, HeapOnlyOwn
  <2> QED
    BY <1>2, <1>3, <2>1, <2>2 DEF MadeSingle
<1> QED
  BY <1>4, <1>5

\* A write to the elements from .. to - 1 of block m.
Overwritten(m, from, to, v) == [k \in DOMAIN m |-> IF from <= k /\ k < to THEN v ELSE m[k]]

LEMMA OverwrittenTyped ==
  ASSUME NEW n, NEW m \in Block(n), NEW from, NEW to, NEW v \in Values
  PROVE  Overwritten(m, from, to, v) \in Block(n)
<1>1. DOMAIN m = 0 .. n - 1 /\ \A k \in 0 .. n - 1 : m[k] \in Values
  BY DEF Block
<1> QED
  BY <1>1 DEF Block, Overwritten

LEMMA StoredNumbers ==
  ASSUME NEW h, NEW s, Stored(h, s)
  PROVE  \E p \in Nat, n \in Nat, l \in Nat :
           /\ p = s.offset /\ n = s.size /\ s.owner \in Owners
           /\ l \in Lengths /\ h.memory[s.owner] \in Block(l) /\ p + n <= l
<1>1. Lengths \subseteq Nat
  BY LengthIsNat DEF Lengths
<1>2. s.offset \in Lengths /\ s.size \in Lengths /\ s.owner \in Owners
  BY DEF Stored
<1>3. PICK l \in Lengths : h.memory[s.owner] \in Block(l) /\ s.offset + s.size <= l
  BY DEF Stored
<1> QED
  BY <1>1, <1>2, <1>3

\* Heap h is heap g with w in the memory of buffer b.
Wrote(g, h, b, w) ==
  /\ h.buffer = g.buffer /\ h.exposed = g.exposed
  /\ h.memory = [g.memory EXCEPT ![g.buffer[b].owner] = w]

AsLong(m, w) == \A n \in Lengths : m \in Block(n) => w \in Block(n)

Holds(h, c, s, w) == OnlyOwn(h, c) /\ Stored(h, s) /\ h.memory[s.owner] = w

LEMMA WroteOnlyOwn ==
  ASSUME VInv, NEW c \in Columns, NEW b \in Mine(c), NEW g, NEW e, MadeSingle(g, c, b, e),
         NEW w, AsLong(g.memory[g.buffer[b].owner], w), NEW h, Wrote(g, h, b, w)
  PROVE  Holds(h, c, g.buffer[b], w)
<1> PICK s : s = g.buffer[b]
  OBVIOUS
<1> PICK m : m = g.memory[s.owner]
  OBVIOUS
<1>0. \A n \in Lengths : m \in Block(n) => w \in Block(n)
  BY DEF AsLong
<1>1. OnlyOwn(g, c) /\ Stored(g, s) /\ Alone(g, b, LiveBuffers)
  BY DEF MadeSingle
<1>2. s.owner \in Owners /\ w \in Blocks
  <2>1. PICK l \in Lengths : m \in Block(l)
    BY <1>1 DEF Stored
  <2>2. w \in Block(l)
    BY <1>0, <2>1
  <2> QED
    BY <1>1, <2>2 DEF Stored, Blocks
<1>3. /\ g.memory \in [Owners -> Blocks \cup {None}] /\ h.memory[s.owner] = w
      /\ h.memory = [g.memory EXCEPT ![s.owner] = w] /\ h.buffer = g.buffer /\ h.exposed = g.exposed
      /\ \A u \in Owners \ {s.owner} : h.memory[u] = g.memory[u]
  BY <1>1, <1>2 DEF OnlyOwn, Wrote
<1>4. ASSUME NEW a \in LiveBuffers \ Mine(c)
      PROVE  h.buffer[a] = buffer[a] /\ h.memory[buffer[a].owner] = memory[buffer[a].owner]
  <2>2. /\ g.buffer[a] = buffer[a] /\ g.memory[buffer[a].owner] = memory[buffer[a].owner]
        /\ g.buffer[a].owner # s.owner
    BY <1>1 DEF OnlyOwn, Alone
  <2>3. buffer[a].owner \in Owners
    BY DEF VInv, IInv, Sound, Heap, BufferType
  <2> QED
    BY <1>3, <2>2, <2>3
<1>5. h.memory \in [Owners -> Blocks \cup {None}]
  BY <1>2, <1>3
<1>6. ASSUME NEW x \in Held
      PROVE  /\ h.exposed[array[x].owner] = exposed[array[x].owner]
             /\ h.memory[array[x].owner] \in Block(Length)
  <2>1. /\ g.exposed[array[x].owner] = exposed[array[x].owner]
        /\ g.memory[array[x].owner] \in Block(Length) /\ array[x].owner \in Owners
    BY <1>1, LentColumns DEF OnlyOwn
  <2>2. Length \in Lengths
    BY LengthIsNat DEF Lengths
  <2> QED
    BY <1>0, <1>3, <2>1, <2>2
<1>7. OnlyOwn(h, c)
  BY <1>4, <1>5, <1>6 DEF OnlyOwn
<1>8. Stored(h, s)
  BY <1>0, <1>1, <1>3 DEF Stored
<1> QED
  BY <1>3, <1>7, <1>8 DEF Holds

\* Elements i .. j - 1 of column c become v.
Filled(c, i, j, v) ==
  [k \in 0 .. column[c].size - 1 |-> IF k \in i .. j - 1 THEN v ELSE View(c)[k]]

LEMMA FillGives ==
  ASSUME VInv, NEW c \in Columns, NEW i \in Nat, NEW j \in Nat, NEW v \in Values,
         Fill(c, i, j, v), UNCHANGED program
  PROVE  Gives(c, Filled(c, i, j, v)) /\ Live(c) /\ i < j /\ j <= column[c].size
<1>q. PICK q : q = column[c]
  OBVIOUS
<1>b. PICK b : b = q.base
  OBVIOUS
<1>g. PICK g : g = MakeSingleOwner(Heap, b, NextOwner)
  OBVIOUS
<1>h. PICK h : h = Written(g, c, i, j, v)
  OBVIOUS
<1>r. PICK r : r = [q EXCEPT !.data = None]
  OBVIOUS
<1>e. PICK e : e = Content(Heap, b)
  OBVIOUS
<1>1. /\ Room /\ Live(c) /\ i < j /\ j <= q.size /\ column' = [column EXCEPT ![c].data = None]
      /\ UNCHANGED <<array, program>> /\ Commit(h)
  BY <1>q, <1>b, <1>g, <1>h DEF Fill, Call, Live
<1>2. IInv'
  BY FillStep DEF VInv
<1>o. PICK o \in Nat, z \in Nat : /\ o = q.offset /\ z = q.size /\ o \in Lengths /\ z \in Lengths
                                  /\ o + z <= buffer[b].size
  BY <1>1, <1>q, <1>b, Numbers
<1>3. q \in ColumnType /\ b \in LiveBuffers /\ View(c) = ViewOf(Heap, q)
  BY <1>1, <1>q, <1>b, Shown
<1>4. r \in ColumnType /\ r.base = b /\ r.data = None /\ r.offset = o /\ r.size = z
  BY <1>3, <1>b, <1>r, <1>o DEF ColumnType
<1>5. column' = [column EXCEPT ![c] = r]
  BY <1>1, <1>q, <1>r
<1>6. MadeSingle(g, c, b, e)
  BY <1>1, <1>q, <1>b, <1>g, <1>e, SingleKeeps
<1>s. PICK s : s = g.buffer[b]
  OBVIOUS
<1>7. /\ Stored(g, s) /\ Content(g, b) = e /\ s.size = buffer[b].size
      /\ \A x \in Held : s.owner = array[x].owner => buffer[b].owner = array[x].owner
  BY <1>6, <1>s DEF MadeSingle
<1>m. PICK m : m = g.memory[s.owner]
  OBVIOUS
<1>p. PICK p \in Nat, n \in Nat, l \in Nat :
        /\ p = s.offset /\ n = s.size /\ s.owner \in Owners
        /\ l \in Lengths /\ g.memory[s.owner] \in Block(l) /\ p + n <= l
  BY <1>7, StoredNumbers
<1>w. PICK w : w = Overwritten(m, (p + o) + i, (p + o) + j, v)
  OBVIOUS
<1>8. Wrote(g, h, b, w)
  BY <1>h, <1>q, <1>b, <1>s, <1>m, <1>w, <1>p, <1>o DEF Written, Wrote, Overwritten
<1>9. AsLong(m, w)
  BY <1>w, OverwrittenTyped DEF AsLong
<1>10. OnlyOwn(h, c) /\ Stored(h, s) /\ h.memory[s.owner] = w
  <2>1. b \in Mine(c)
    BY <1>1, <1>q, <1>b DEF Mine
  <2>2. Holds(h, c, s, w)
    BY <1>s, <1>m, <1>6, <1>8, <1>9, <2>1, WroteOnlyOwn
  <2> QED
    BY <2>2 DEF Holds
<1>11. h.buffer[b] = s
  BY <1>8, <1>s DEF Wrote
<1>12. Fits(h, r)
  BY <1>4, <1>o, <1>7, <1>10, <1>11 DEF Fits
<1>13. ViewOf(h, r) = Filled(c, i, j, v)
  <2>f. PICK f : f = Content(h, b)
    OBVIOUS
  <2>1. f = [k \in 0 .. n - 1 |-> w[p + k]]
    BY <1>10, <1>11, <1>p, <2>f DEF Content
  <2>2. e = [k \in 0 .. n - 1 |-> m[p + k]]
    BY <1>7, <1>s, <1>m, <1>p DEF Content
  <2>3. ViewOf(h, r) = [k \in 0 .. z - 1 |-> f[o + k]]
    BY <1>4, <2>f DEF ViewOf
  <2>4. View(c) = [k \in 0 .. z - 1 |-> e[o + k]]
    BY <1>3, <1>q, <1>b, <1>e, <1>o DEF ViewOf
  <2>5. n = buffer[b].size /\ DOMAIN m = 0 .. l - 1
    BY <1>7, <1>p, <1>m DEF Block
  <2>6. o + z <= n /\ p + n <= l
    BY <2>5, <1>o, <1>p
  <2>7. ASSUME NEW k \in 0 .. z - 1
        PROVE  f[o + k] = IF k \in i .. j - 1 THEN v ELSE View(c)[k]
    <3>1. o + k \in 0 .. n - 1 /\ p + (o + k) \in 0 .. l - 1
      BY <2>6
    <3>2. f[o + k] = w[p + (o + k)] /\ View(c)[k] = m[p + (o + k)]
      BY <2>1, <2>2, <2>4, <3>1
    <3>3. w[p + (o + k)] = IF (p + o) + i <= p + (o + k) /\ p + (o + k) < (p + o) + j
                             THEN v ELSE m[p + (o + k)]
      BY <2>5, <3>1, <1>w DEF Overwritten
    <3>4. ((p + o) + i <= p + (o + k) /\ p + (o + k) < (p + o) + j) <=> k \in i .. j - 1
      OBVIOUS
    <3> QED
      BY <3>2, <3>3, <3>4
  <2>8. Filled(c, i, j, v) = [k \in 0 .. z - 1 |-> IF k \in i .. j - 1 THEN v ELSE View(c)[k]]
    BY <1>q, <1>o DEF Filled
  <2> QED
    BY <2>3, <2>7, <2>8
<1>14. NotAdopted(h, c, r)
  BY <1>1, <1>4, <1>7, <1>11, <1>q, <1>b DEF NotAdopted
<1>15. Gives(c, ViewOf(h, r))
  BY <1>1, <1>2, <1>4, <1>5, <1>10, <1>12, <1>14, CallKeeps
<1> QED
  BY <1>1, <1>13, <1>15, <1>q

-----------------------------------------------------------------------------
(* Arrays come and go, columns go. *)

\* Array x points where it did, on a heap that has its memory.
Lends(h, x) ==
  LET a == array[x]
      z == array'[x]
  IN  /\ z # None /\ z.owner = a.owner /\ z.keeps = a.keeps /\ z.offset = a.offset /\ z.size = a.size
      /\ z.of # None => column'[z.of] # None
      /\ h.exposed[a.owner] = exposed[a.owner] /\ h.memory[a.owner] \in Block(Length)
      /\ \A d \in Columns : Live(d)' /\ buffer'[column'[d].base].owner = a.owner => z.of = d

LEMMA StaysAdopted ==
  ASSUME VInv, NEW x \in Held, NEW h, Commit(h), UNCHANGED program, Lends(h, x)
  PROVE  Adopted(x)'
<1> PICK a : a = array[x]
  OBVIOUS
<1> PICK z : z = array'[x]
  OBVIOUS
<1> PICK o : o = a.owner
  OBVIOUS
<1>1. /\ x \in Arrays /\ o \in Owners /\ "slice" \notin program /\ a.keeps = o
      /\ a.offset = 0 /\ a.size = Length /\ exposed[o]
  BY LentColumns DEF Adopted
<1>2. z # None /\ z.owner = o /\ z.keeps = o /\ z.offset = 0 /\ z.size = Length
  BY <1>1 DEF Lends
<1>3. o \in Owners \cap Kept'
  BY <1>1, <1>2 DEF Kept, Held
<1>4. memory'[o] = h.memory[o] /\ (exposed'[o] <=> h.exposed[o])
  BY <1>3 DEF Commit
<1>5. exposed'[o] /\ memory'[o] \in Block(Length)
  BY <1>1, <1>4 DEF Lends
<1>6. z.of # None => column'[z.of] # None
  BY DEF Lends
<1>7. \A d \in Columns : Live(d)' /\ buffer'[column'[d].base].owner = o => z.of = d
  BY DEF Lends
<1> QED
  BY <1>1, <1>2, <1>5, <1>6, <1>7 DEF Adopted, Live

\* The state that follows is good if its columns stay, or are given, and its arrays are adopted.
LEMMA VInvFollows ==
  ASSUME VInv, IInv', NEW h, Commit(h), h.memory \in [Owners -> Blocks \cup {None}], UNCHANGED program,
         \A d \in Columns : Live(d)' => Fits(Heap', column'[d]), \A x \in Held' : Adopted(x)'
  PROVE  VInv'
<1>1. Storage'
  BY CommitStorage DEF VInv
<1>2. \A d \in Columns : Live(d)' => Fits(Heap, column[d])'
  BY DEF Fits, Stored
<1> QED
  BY <1>1, <1>2 DEF VInv

LEMMA ReleaseKeeps ==
  ASSUME VInv, NEW x \in Arrays, ReleaseArray(x), UNCHANGED program
  PROVE  VInv' /\ ValueNow' = ValueNow /\ LentNow' \subseteq LentNow
<1>1. array' = [array EXCEPT ![x] = None] /\ UNCHANGED <<column, program>> /\ Commit(Heap)
  BY DEF ReleaseArray
<1>2. IInv'
  BY ReleaseArrayStep DEF VInv
<1>3. ASSUME NEW d \in Columns, Live(d) PROVE Stays(d)
  <2>1. SameIn(Heap, d)
    BY DEF SameIn, Heap
  <2> QED
    BY <1>1, <1>3, <2>1, StaysAsItIs
<1>4. array'[x] = None /\ \A y \in Arrays \ {x} : array'[y] = array[y]
  BY <1>1 DEF VInv, IInv, Places
<1>5. \A d \in Columns : Live(d)' <=> Live(d)
  BY <1>1 DEF Live
<1>6. ASSUME NEW y \in Held' PROVE Adopted(y)'
  <2>1. y \in Held /\ array'[y] = array[y] /\ array[y] # None
    BY <1>4 DEF Held
  <2>2. Adopted(y) /\ y \in Arrays /\ array[y].owner \in Owners
    BY <2>1, LentColumns
  <2>3. array[y].of # None => column'[array[y].of] # None
    BY <1>1, <2>2 DEF Adopted, Live
  <2>4. Heap.exposed = exposed /\ Heap.memory = memory
    BY DEF Heap
  <2>5. \A d \in Columns : Live(d)' /\ buffer'[column'[d].base].owner = array[y].owner => array[y].of = d
    BY <1>3, <1>5, <2>2 DEF Adopted, Stays
  <2>6. Lends(Heap, y)
    BY <2>1, <2>2, <2>3, <2>4, <2>5 DEF Lends, Adopted
  <2> QED
    BY <1>1, <2>1, <2>6, StaysAdopted
<1>7. \A d \in Columns : Live(d)' => Fits(Heap', column'[d])
  BY <1>3, <1>5 DEF Stays
<1>8. VInv'
  BY <1>1, <1>2, <1>6, <1>7, HeapTypes, VInvFollows
<1>9. ValueNow' = ValueNow
  <2>1. \A d \in Columns : (IF column'[d] = None THEN None ELSE View(d)')
                            = IF column[d] = None THEN None ELSE View(d)
    BY <1>1, <1>3 DEF Live, Stays
  <2>2. ValueNow' = [d \in Columns |-> IF column'[d] = None THEN None ELSE View(d)']
    BY DEF ValueNow
  <2> QED
    BY <2>1, <2>2 DEF ValueNow
<1>10. LentNow' \subseteq LentNow
  BY <1>1, <1>3, <1>4 DEF LentNow, Live, Stays
<1> QED
  BY <1>8, <1>9, <1>10

LEMMA DropKeeps ==
  ASSUME VInv, NEW c \in Columns, Drop(c), UNCHANGED program
  PROVE  VInv' /\ ValueNow' = [ValueNow EXCEPT ![c] = None] /\ LentNow' = LentNow \ {c}
<1>1. /\ column' = [column EXCEPT ![c] = None]
      /\ array' = [x \in Arrays |-> IF array[x] # None /\ array[x].of = c
                                    THEN [array[x] EXCEPT !.of = None] ELSE array[x]]
      /\ Live(c) /\ Commit(Heap)
  BY DEF Drop, Live
<1>2. IInv'
  BY DropStep DEF VInv
<1>3. ~Live(c)' /\ \A d \in Columns \ {c} : column'[d] = column[d] /\ (Live(d)' <=> Live(d))
  BY <1>1 DEF VInv, IInv, Places, Live
<1>4. ASSUME NEW d \in Columns \ {c}, Live(d) PROVE Stays(d)
  <2>1. SameIn(Heap, d)
    BY DEF SameIn, Heap
  <2> QED
    BY <1>1, <1>3, <1>4, <2>1, StaysAsItIs
<1>5. ASSUME NEW y \in Arrays, array[y] # None
      PROVE  /\ array'[y] # None
             /\ array'[y].owner = array[y].owner /\ array'[y].keeps = array[y].keeps
             /\ array'[y].offset = array[y].offset /\ array'[y].size = array[y].size
             /\ array'[y].of = IF array[y].of = c THEN None ELSE array[y].of
  <2>1. array[y] \in ArrayType
    BY <1>5 DEF VInv, IInv, Places
  <2> PICK a \in ArrayType : a = array[y]
    BY <2>1
  <2>2. [a EXCEPT !.of = None] \in ArrayType /\ array'[y] = IF a.of = c THEN [a EXCEPT !.of = None] ELSE a
    BY <1>1, <1>5 DEF ArrayType
  <2>3. [a EXCEPT !.of = None] # None
    BY <2>2, NamesAreApart
  <2> QED
    BY <1>5, <2>2, <2>3 DEF ArrayType
<1>6. \A y \in Arrays : array[y] = None => array'[y] = None
  BY <1>1
<1>7. ASSUME NEW y \in Held' PROVE Adopted(y)'
  <2>1. y \in Held /\ y \in Arrays /\ array[y] # None
    BY <1>6 DEF Held
  <2>2. Adopted(y) /\ array[y].owner \in Owners
    BY <2>1, LentColumns
  <2>3. array'[y].of # None => column'[array'[y].of] # None
    <3>1. array[y].of \in Columns \cup {None}
      BY <2>1 DEF VInv, IInv, Places, ArrayType
    <3> QED
      BY <1>3, <1>5, <2>1, <2>2, <3>1 DEF Adopted, Live
  <2>4. Heap.exposed = exposed /\ Heap.memory = memory
    BY DEF Heap
  <2>5. \A d \in Columns : Live(d)' /\ buffer'[column'[d].base].owner = array[y].owner => array'[y].of = d
    BY <1>3, <1>4, <1>5, <2>1, <2>2 DEF Adopted, Stays
  <2>6. Lends(Heap, y)
    BY <1>5, <2>1, <2>2, <2>3, <2>4, <2>5 DEF Lends, Adopted
  <2> QED
    BY <1>1, <2>1, <2>6, StaysAdopted
<1>8. \A d \in Columns : Live(d)' => Fits(Heap', column'[d])
  BY <1>3, <1>4 DEF Stays
<1>9. VInv'
  BY <1>1, <1>2, <1>7, <1>8, HeapTypes, VInvFollows
<1>10. ValueNow' = [ValueNow EXCEPT ![c] = None]
  <2>1. \A d \in Columns : (IF column'[d] = None THEN None ELSE View(d)')
                            = IF d = c THEN None ELSE IF column[d] = None THEN None ELSE View(d)
    BY <1>3, <1>4 DEF Live, Stays
  <2>2. ValueNow' = [d \in Columns |-> IF column'[d] = None THEN None ELSE View(d)']
    BY DEF ValueNow
  <2> QED
    BY <2>1, <2>2 DEF ValueNow
<1>11. \A d \in Columns \ {c} : d \in LentNow' <=> d \in LentNow
  <2> TAKE d \in Columns \ {c}
  <2>1. CASE Live(d)
    <3>1. Live(d)' /\ column'[d] = column[d] /\ buffer'[column[d].base] = buffer[column[d].base]
      BY <1>4, <2>1 DEF Stays
    <3>2. \A y \in Arrays : (array'[y] # None /\ array'[y].of = d /\ array'[y].owner = buffer[column[d].base].owner)
                         <=> (array[y] # None /\ array[y].of = d /\ array[y].owner = buffer[column[d].base].owner)
      <4>1. d # None
        BY NoneIsNoContent
      <4> QED
        BY <1>5, <1>6, <4>1
    <3> QED
      BY <2>1, <3>1, <3>2 DEF LentNow, Live
  <2>2. CASE ~Live(d)
    BY <1>3, <2>2 DEF LentNow, Live
  <2> QED
    BY <2>1, <2>2
<1>12. c \notin LentNow' /\ LentNow \subseteq Columns /\ LentNow' \subseteq Columns
  BY <1>3 DEF LentNow, Live
<1> HIDE DEF LentNow
<1> QED
  BY <1>9, <1>10, <1>11, <1>12

\* A third party writes to adopted memory: one column at most sees it.
Changes(c) == Live(c) /\ c \in LentNow /\ ValueNow'[c] \in Block(column[c].size)

LEMMA ExternalWriteKeeps ==
  ASSUME VInv, NEW x \in Arrays, NEW k \in Nat, k < Length, NEW v \in Values,
         ExternalWrite(x, k, v), UNCHANGED program
  PROVE  /\ VInv' /\ LentNow' = LentNow
         /\ \A c \in Columns : ValueNow'[c] = ValueNow[c] \/ Changes(c)
<1>o. PICK o : o = array[x].owner
  OBVIOUS
<1>1. /\ x \in Held /\ UNCHANGED <<column, buffer, slices, exposed, array, program>>
      /\ memory' = [memory EXCEPT ![o][array[x].offset + k] = v]
  BY <1>o DEF ExternalWrite, Held
<1>2. /\ o \in Owners /\ Adopted(x) /\ array[x].offset = 0 /\ memory[o] \in Block(Length)
      /\ \A c \in Columns : Live(c) /\ buffer[column[c].base].owner = o => c \in LentNow
  BY <1>o, <1>1, LentColumns DEF Adopted
<1>m. PICK m : m = memory[o]
  OBVIOUS
<1>w. PICK w : w = [m EXCEPT ![0 + k] = v]
  OBVIOUS
<1>3. memory' = [memory EXCEPT ![o] = w]
  BY <1>1, <1>2, <1>m, <1>w
<1>4. w \in Block(Length) /\ \A n \in Lengths : m \in Block(n) => w \in Block(n)
  BY <1>2, <1>m, <1>w DEF Block
<1>5. memory \in [Owners -> Blocks \cup {None}]
  BY DEF VInv, Storage
<1>6. memory'[o] = w /\ \A u \in Owners \ {o} : memory'[u] = memory[u]
  BY <1>2, <1>3, <1>5
<1>7. IInv'
  BY ExternalWriteStep DEF VInv
<1>8. Storage'
  <2>1. Length \in Lengths
    BY LengthIsNat DEF Lengths
  <2>2. w \in Blocks
    BY <1>4, <2>1 DEF Blocks
  <2>3. memory' \in [Owners -> Blocks \cup {None}]
    BY <1>3, <1>5, <2>2
  <2> QED
    BY <1>1, <2>3 DEF VInv, Storage
<1>9. ASSUME NEW c \in Columns, Live(c)
      PROVE  /\ Fits(Heap', column'[c])
             /\ View(c)' = View(c) \/ (c \in LentNow /\ View(c)' \in Block(column[c].size))
  <2>q. PICK q : q = column[c]
    OBVIOUS
  <2>s. PICK s : s = buffer[q.base]
    OBVIOUS
  <2>1. Fits(Heap, q) /\ Heap.buffer = buffer /\ Heap.memory = memory
        /\ Heap'.buffer = buffer /\ Heap'.memory = memory' /\ column'[c] = q
    BY <1>1, <1>9, <2>q DEF VInv, Heap
  <2>2. Stored(Heap, s) /\ s.owner \in Owners
    BY <2>1, <2>s DEF Fits, Stored
  <2>3. Stored(Heap', s)
    BY <1>4, <1>6, <1>m, <2>1, <2>2 DEF Stored
  <2>4. Fits(Heap', q)
    BY <2>1, <2>3, <2>s DEF Fits
  <2>5. View(c)' = ViewOf(Heap', q) /\ View(c) = ViewOf(Heap, q)
    BY <2>1, <2>q DEF View, ViewOf
  <2>6. CASE s.owner = o
    <3>1. ViewOf(Heap', q) \in Block(q.size)
      BY <2>4, ViewTyped
    <3> QED
      BY <1>2, <1>9, <2>1, <2>4, <2>5, <2>6, <2>q, <2>s, <3>1
  <2>7. CASE s.owner # o
    <3>1. Heap'.memory[s.owner] = Heap.memory[s.owner]
      BY <1>6, <2>1, <2>2, <2>7
    <3>2. ViewOf(Heap', q) = ViewOf(Heap, q)
      BY <2>1, <2>s, <3>1, SameView
    <3> QED
      BY <2>1, <2>4, <2>5, <3>2
  <2> QED
    BY <2>6, <2>7
<1>10. ASSUME NEW y \in Held' PROVE Adopted(y)'
  <2>1. y \in Held /\ array'[y] = array[y]
    BY <1>1 DEF Held
  <2>2. Adopted(y) /\ array[y].owner \in Owners
    BY <2>1, LentColumns
  <2>3. memory'[array[y].owner] \in Block(Length)
    BY <1>4, <1>6, <2>2 DEF Adopted
  <2> QED
    BY <1>1, <2>2, <2>3 DEF Adopted, Live
<1>11. VInv'
  <2>1. \A c \in Columns : Live(c)' => Fits(Heap, column[c])'
    <3> SUFFICES ASSUME NEW c \in Columns, Live(c)' PROVE Fits(Heap', column'[c])
      BY DEF Fits, Stored
    <3> QED
      BY <1>1, <1>9 DEF Live
  <2> QED
    BY <1>7, <1>8, <1>10, <2>1 DEF VInv
<1>12. LentNow' = LentNow
  BY <1>1 DEF LentNow
<1>13. ASSUME NEW c \in Columns PROVE ValueNow'[c] = ValueNow[c] \/ Changes(c)
  <2>1. ValueNow'[c] = IF column'[c] = None THEN None ELSE View(c)'
    BY DEF ValueNow
  <2>2. ValueNow[c] = IF column[c] = None THEN None ELSE View(c)
    BY DEF ValueNow
  <2> QED
    BY <1>1, <1>9, <2>1, <2>2 DEF Changes, Live
<1> QED
  BY <1>11, <1>12, <1>13

LEMMA AdoptKeeps ==
  ASSUME VInv, Independent, NEW c \in Columns, NEW x \in Arrays, NEW m \in Fresh, Adopt(c, x, m),
         UNCHANGED program
  PROVE  /\ VInv' /\ ~Live(c) /\ m \in Block(Length) /\ ValueNow' = [ValueNow EXCEPT ![c] = m]
         /\ LentNow' = LentNow \cup {c}
<1>b. PICK b : b = NextBuffer
  OBVIOUS
<1>o. PICK o : o = NextOwner
  OBVIOUS
<1>r. PICK r : r = [base |-> b, data |-> None, offset |-> 0, size |-> Length]
  OBVIOUS
<1>y. PICK y : y = [owner |-> o, offset |-> 0, size |-> Length, keeps |-> o, of |-> c]
  OBVIOUS
<1>h. PICK h : h = NewBuffer(Heap, b, o, m, TRUE, Length)
  OBVIOUS
<1>1. /\ "adopt" \in program /\ Room /\ ~Live(c) /\ array[x] = None
      /\ column' = [column EXCEPT ![c] = r] /\ array' = [array EXCEPT ![x] = y] /\ Commit(h)
  BY <1>b, <1>o, <1>r, <1>y, <1>h DEF Adopt, Live, Whole, Lent
<1>2. IInv'
  BY AdoptStep DEF VInv
<1>3. Length \in Int /\ Length \in Lengths /\ 0 \in Lengths /\ m \in Block(Length)
  BY LengthIsNat, FreshAreElements DEF Lengths, Block
<1>4. /\ b \in Buffers /\ o \in Owners /\ \A q \in LiveBuffers : buffer[q].owner # o
      /\ \A z \in Held : array[z].owner # o
  BY <1>1, <1>b, <1>o, NewNames
<1>5. r \in ColumnType /\ r.base = b /\ r.data = None /\ r.offset = 0 /\ r.size = Length
  BY <1>3, <1>4, <1>r DEF ColumnType
<1>6. y \in ArrayType /\ y # None /\ y.owner = o /\ y.keeps = o /\ y.offset = 0 /\ y.size = Length /\ y.of = c
  <2>1. y \in ArrayType
    BY <1>3, <1>4, <1>y DEF ArrayType
  <2> QED
    BY <2>1, <1>y, NamesAreApart
<1>s. PICK s : s = [owner |-> o, offset |-> 0, size |-> Length]
  OBVIOUS
<1>7. /\ OnlyOwn(h, c) /\ h.buffer[b] = s /\ Stored(h, s) /\ Content(h, b) = m
      /\ h.exposed = [exposed EXCEPT ![o] = TRUE] /\ h.memory = [memory EXCEPT ![o] = m]
  <2>1. b \in Buffers \ (LiveBuffers \ Mine(c))
    BY <1>1, <1>b, NewNames
  <2>2. AddsOwner(h, c, b, m, Length)
    BY <1>1, <1>3, <1>h, <1>o, <2>1, NewOnlyOwn
  <2>3. h.exposed = [exposed EXCEPT ![o] = TRUE]
    BY <1>h DEF NewBuffer, AddSlice, AddOwner, Heap
  <2> QED
    BY <1>o, <1>s, <2>2, <2>3 DEF AddsOwner
<1>8. column'[c] = r /\ Live(c)' /\ \A d \in Columns \ {c} : column'[d] = column[d] /\ (Live(d)' <=> Live(d))
  BY <1>1, <1>5, NamesAreApart DEF VInv, IInv, Places, Live
<1>9. array'[x] = y /\ \A z \in Arrays \ {x} : array'[z] = array[z]
  BY <1>1 DEF VInv, IInv, Places
<1>10. ASSUME NEW d \in Columns \ {c}, Live(d) PROVE Stays(d) /\ buffer[column[d].base].owner # o
  <2>1. column[d].base \in LiveBuffers \ Mine(c) /\ (column[d].data # None => column[d].data \in LiveBuffers \ Mine(c))
    BY <1>10, Others DEF VInv
  <2>2. SameIn(h, d)
    BY <1>7, <2>1 DEF SameIn, OnlyOwn
  <2>3. Stays(d)
    BY <1>1, <1>8, <1>10, <2>2, StaysAsItIs
  <2> QED
    BY <1>4, <2>1, <2>3
<1>11. Fits(h, r) /\ ViewOf(h, r) = m
  <2>1. s.owner = o /\ s.offset = 0 /\ s.size = Length
    BY <1>s
  <2>2. Fits(h, r)
    BY <1>3, <1>5, <1>7, <2>1 DEF Fits
  <2>3. ViewOf(h, r) = [k \in 0 .. Length - 1 |-> m[0 + k]]
    BY <1>5, <1>7 DEF ViewOf
  <2>4. \A k \in 0 .. Length - 1 : 0 + k = k
    BY <1>3
  <2>5. ViewOf(h, r) = [k \in 0 .. Length - 1 |-> m[k]]
    BY <2>3, <2>4
  <2> QED
    BY <1>3, <2>2, <2>5 DEF Block
<1>12. Fits(Heap', r) /\ View(c)' = m /\ buffer'[b].owner = o
  BY <1>1, <1>5, <1>7, <1>8, <1>11, <1>s, Committed
<1>13. ASSUME NEW z \in Held' PROVE Adopted(z)'
  <2>1. CASE z = x
    <3>1. "slice" \notin program'
      BY <1>1 DEF Independent, VInv, Storage
    <3>2. o \in Owners \cap Kept'
      BY <1>4, <1>6, <1>9, <1>13, <2>1 DEF Kept, Held
    <3>3. memory'[o] = h.memory[o] /\ (exposed'[o] <=> h.exposed[o])
      BY <1>1, <3>2 DEF Commit
    <3>4. memory'[o] = m /\ exposed'[o]
      BY <1>4, <1>7, <3>3 DEF VInv, Storage
    <3>5. \A d \in Columns : Live(d)' /\ buffer'[column'[d].base].owner = o => d = c
      BY <1>8, <1>10 DEF Stays
    <3> QED
      BY <1>3, <1>6, <1>8, <1>9, <2>1, <3>1, <3>4, <3>5 DEF Adopted
  <2>2. CASE z # x
    <3>1. z \in Held /\ array'[z] = array[z] /\ array[z] # None
      BY <1>9, <2>2 DEF Held
    <3>2. Adopted(z) /\ array[z].owner \in Owners /\ array[z].owner # o
      BY <1>4, <3>1, LentColumns
    <3>3. array[z].of # None => column'[array[z].of] # None
      <4>1. array[z].of \in Columns \cup {None}
        BY <3>1 DEF Held, VInv, IInv, Places, ArrayType
      <4> QED
        BY <1>8, <3>2, <4>1 DEF Adopted, Live
    <3>4. \A d \in Columns : Live(d)' /\ buffer'[column'[d].base].owner = array[z].owner => array[z].of = d
      BY <1>5, <1>8, <1>10, <1>12, <3>2 DEF Adopted, Stays
    <3>5. h.exposed[array[z].owner] = exposed[array[z].owner] /\ h.memory[array[z].owner] \in Block(Length)
      BY <1>7, <3>1 DEF OnlyOwn
    <3>6. Lends(h, z)
      BY <3>1, <3>3, <3>4, <3>5 DEF Lends
    <3> QED
      BY <1>1, <3>1, <3>6, StaysAdopted
  <2> QED
    BY <2>1, <2>2
<1>14. VInv'
  <2>1. h.memory \in [Owners -> Blocks \cup {None}]
    BY <1>7 DEF OnlyOwn
  <2>2. \A d \in Columns : Live(d)' => Fits(Heap', column'[d])
    BY <1>8, <1>10, <1>12 DEF Stays
  <2> QED
    BY <1>1, <1>2, <1>13, <2>1, <2>2, VInvFollows
<1>15. ValueNow' = [ValueNow EXCEPT ![c] = m]
  <2>1. \A d \in Columns : (IF column'[d] = None THEN None ELSE View(d)')
                            = IF d = c THEN m ELSE IF column[d] = None THEN None ELSE View(d)
    BY <1>8, <1>10, <1>12 DEF Live, Stays
  <2>2. ValueNow' = [d \in Columns |-> IF column'[d] = None THEN None ELSE View(d)']
    BY DEF ValueNow
  <2> QED
    BY <2>1, <2>2 DEF ValueNow
<1>16. c \in LentNow'
  BY <1>5, <1>6, <1>8, <1>9, <1>12 DEF LentNow, Live
<1>17. \A d \in Columns \ {c} : d \in LentNow' <=> d \in LentNow
  <2> TAKE d \in Columns \ {c}
  <2>1. CASE Live(d)
    <3>1. Live(d)' /\ column'[d] = column[d] /\ buffer'[column[d].base] = buffer[column[d].base]
      BY <1>10, <2>1 DEF Stays
    <3>2. \A z \in Arrays : (array'[z] # None /\ array'[z].of = d) <=> (array[z] # None /\ array[z].of = d)
      BY <1>1, <1>6, <1>9
    <3>3. \A z \in Arrays : array'[z] # None /\ array'[z].of = d => array'[z] = array[z]
      BY <1>6, <1>9
    <3> QED
      BY <2>1, <3>1, <3>2, <3>3 DEF LentNow, Live
  <2>2. CASE ~Live(d)
    BY <1>8, <2>2 DEF LentNow, Live
  <2> QED
    BY <2>1, <2>2
<1>18. LentNow \subseteq Columns /\ LentNow' \subseteq Columns
  BY DEF LentNow
<1> HIDE DEF LentNow
<1> QED
  BY <1>1, <1>3, <1>14, <1>15, <1>16, <1>17, <1>18

-----------------------------------------------------------------------------
(* The refinement. *)

LEMMA Meanings ==
  /\ \A c, m : ValuesSpec!Make(c, m) <=> ValueNow[c] = None /\ ValueNow' = [ValueNow EXCEPT ![c] = m]
  /\ \A c : ValuesSpec!Of(c) = DOMAIN ValueNow[c]
  /\ ValuesSpec!Init <=> ValueNow = [c \in Columns |-> None] /\ LentNow = {}
  /\ ValuesSpec!Recover <=> LentNow' \in SUBSET LentNow /\ ValueNow' = ValueNow
  /\ UNCHANGED ValuesSpec!vars <=> ValueNow' = ValueNow /\ LentNow' = LentNow
BY DEF ValueNow, LentNow, ValuesSpec!Make, ValuesSpec!Of, ValuesSpec!Init, ValuesSpec!Recover, ValuesSpec!vars

LEMMA Creates ==
  ASSUME NEW c \in Columns, NEW m \in Block(Length), ValueNow[c] = None,
         ValueNow' = [ValueNow EXCEPT ![c] = m], LentNow' \in {LentNow, LentNow \cup {c}}
  PROVE  ValuesSpec!Next
<1>1. ValuesSpec!Make(c, m)
  BY Meanings
<1>2. ValuesSpec!Create(c)
  BY <1>1 DEF ValuesSpec!Create, ValuesSpec!Elements, Block, LentNow
<1> QED
  BY <1>2 DEF ValuesSpec!Next

LEMMA Copies ==
  ASSUME NEW c \in Columns, NEW d \in Columns, ValueNow[c] # None, ValueNow[d] = None,
         ValueNow' = [ValueNow EXCEPT ![d] = ValueNow[c]], LentNow' = LentNow
  PROVE  ValuesSpec!Next
<1>1. ValuesSpec!Copy(c, d)
  BY DEF ValuesSpec!Copy, ValuesSpec!Make, LentNow, ValueNow
<1> QED
  BY <1>1 DEF ValuesSpec!Next

LEMMA Slices ==
  ASSUME NEW c \in Columns, NEW d \in Columns, NEW i \in Lengths, NEW j \in Lengths,
         ValueNow[c] # None, ValueNow[d] = None, {i, j - 1} \subseteq DOMAIN ValueNow[c],
         ValueNow' = [ValueNow EXCEPT ![d] = [k \in 0 .. j - i - 1 |-> ValueNow[c][i + k]]],
         LentNow' = LentNow
  PROVE  ValuesSpec!Next
<1>1. {i, j - 1} \subseteq ValuesSpec!Of(c)
  BY Meanings
<1>2. ValuesSpec!Slice(c, d, i, j)
  BY <1>1 DEF ValuesSpec!Slice, ValuesSpec!Make, LentNow, ValueNow
<1> QED
  BY <1>2 DEF ValuesSpec!Next, Lengths

LEMMA Assigns ==
  ASSUME NEW c \in Columns, NEW i \in Lengths, NEW j \in Lengths, NEW v \in Values,
         ValueNow[c] # None, {i, j - 1} \subseteq DOMAIN ValueNow[c],
         ValueNow' = [ValueNow EXCEPT ![c] =
                        [k \in DOMAIN ValueNow[c] |-> IF k \in i .. j - 1 THEN v ELSE ValueNow[c][k]]],
         LentNow' \in {LentNow, LentNow \ {c}}
  PROVE  ValuesSpec!Next
<1>1. ValuesSpec!Of(c) = DOMAIN ValueNow[c]
  BY Meanings
<1>2. ValuesSpec!Assign(c, i, j, v)
  BY <1>1 DEF ValuesSpec!Assign, LentNow, ValueNow
<1> QED
  BY <1>2 DEF ValuesSpec!Next, Lengths

LEMMA Drops ==
  ASSUME NEW c \in Columns, ValueNow' = [ValueNow EXCEPT ![c] = None], LentNow' = LentNow \ {c}
  PROVE  ValuesSpec!Next
<1>1. ValuesSpec!Drop(c)
  BY DEF ValuesSpec!Drop, LentNow, ValueNow
<1> QED
  BY <1>1 DEF ValuesSpec!Next

LEMMA Recovers ==
  ASSUME ValueNow' = ValueNow, LentNow' \in SUBSET LentNow
  PROVE  ValuesSpec!Next
BY Meanings DEF ValuesSpec!Next

LEMMA ThirdParties ==
  ASSUME LentNow' = LentNow,
         \A c \in Columns : IF c \in LentNow THEN ValueNow'[c] \in [DOMAIN ValueNow[c] -> Values]
                                             ELSE ValueNow'[c] = ValueNow[c]
  PROVE  ValuesSpec!Next
<1>1. \A c : ValuesSpec!Of(c) = DOMAIN ValueNow[c]
  BY Meanings
<1>2. ValuesSpec!ThirdParty
  BY <1>1 DEF ValuesSpec!ThirdParty, LentNow, ValueNow
<1> QED
  BY <1>2 DEF ValuesSpec!Next

\* What the abstract state knows of a column.
LEMMA Valued ==
  ASSUME VInv, NEW c \in Columns
  PROVE  /\ ~Live(c) => ValueNow[c] = None /\ c \notin LentNow
         /\ Live(c) => /\ ValueNow[c] = View(c) /\ ValueNow[c] # None
                       /\ ValueNow[c] \in Block(column[c].size)
                       /\ DOMAIN ValueNow[c] = 0 .. column[c].size - 1
                       /\ column[c].size \in Lengths
<1>1. ~Live(c) => ValueNow[c] = None /\ c \notin LentNow
  BY DEF ValueNow, LentNow, Live
<1>2. ASSUME Live(c)
      PROVE  /\ ValueNow[c] = View(c) /\ View(c) \in Block(column[c].size) /\ View(c) # None
             /\ column[c].size \in Lengths
  <2>1. ValueNow[c] = View(c) /\ View(c) \in Block(column[c].size) /\ column[c].size \in Lengths
    BY <1>2, Shown
  <2> QED
    BY <2>1, NoneIsNoContent DEF Block, Lengths
<1> QED
  BY <1>1, <1>2 DEF Block

-----------------------------------------------------------------------------
(* The theorems. *)

LEMMA InitVInv == Init => VInv /\ ValuesSpec!Init
<1> SUFFICES ASSUME Init PROVE VInv /\ ValuesSpec!Init
  OBVIOUS
<1>1. IInv
  BY InitIInv
<1>2. Storage
  BY DEF Init, Storage
<1>3. (\A c \in Columns : ~Live(c)) /\ Held = {}
  BY DEF Init, Live, Held
<1>4. ValueNow = [c \in Columns |-> None] /\ LentNow = {}
  BY DEF Init, ValueNow, LentNow
<1>5. ValuesSpec!Init
  BY <1>4, Meanings
<1> QED
  BY <1>1, <1>2, <1>3, <1>5 DEF VInv

AbstractStep == ValuesSpec!Next \/ UNCHANGED ValuesSpec!vars

LEMMA NextVInv ==
  ASSUME Independent, VInv, [Next]_vars
  PROVE  VInv' /\ AbstractStep
<1>0. UNCHANGED vars \/ (Next /\ UNCHANGED program)
  BY DEF Next
<1>l. Lengths \subseteq Nat /\ \A i \in Lengths, j \in Nat : j < i => j \in Lengths /\ j + 1 \in Lengths
  BY LengthIsNat DEF Lengths
<1>v. \A c \in Columns : ValueNow' = [ValueNow EXCEPT ![c] = ValueNow[c]] => ValueNow' = ValueNow
  BY DEF ValueNow
<1>1. CASE UNCHANGED vars
  <2>1. UNCHANGED <<column, buffer, slices, exposed, memory, array, program>>
    BY <1>1 DEF vars
  <2>2. IInv'
    BY <1>1, NextIInv DEF VInv
  <2>3. VInv'
    BY <2>1, <2>2 DEF VInv, Storage, Fits, Stored, Adopted, Heap, Live, Held
  <2>4. ValueNow' = ValueNow /\ LentNow' = LentNow
    BY <2>1 DEF ValueNow, LentNow, View, Content, Heap
  <2>5. UNCHANGED ValuesSpec!vars
    BY <2>4, Meanings
  <2> QED
    BY <2>3, <2>5 DEF AbstractStep
<1>2. ASSUME NEW c \in Columns, ReadData(c), UNCHANGED program PROVE VInv' /\ AbstractStep
  <2>1. Gives(c, View(c)) /\ Live(c)
    BY <1>2, ReadDataGives
  <2>2. ValueNow' = ValueNow /\ LentNow' \in SUBSET LentNow
    BY <1>v, <2>1, Valued DEF Gives
  <2> QED
    BY <2>1, <2>2, Recovers DEF Gives, AbstractStep
<1>3. ASSUME NEW c \in Columns, Drop(c), UNCHANGED program PROVE VInv' /\ AbstractStep
  BY <1>3, DropKeeps, Drops DEF AbstractStep
<1>4. ASSUME NEW c \in Columns, NEW m \in Fresh, Create(c, m), UNCHANGED program
      PROVE  VInv' /\ AbstractStep
  <2>1. Gives(c, m) /\ ~Live(c) /\ m \in Block(Length)
    BY <1>4, CreateGives
  <2>2. ValueNow[c] = None /\ ValueNow' = [ValueNow EXCEPT ![c] = m] /\ LentNow' = LentNow
    BY <2>1, Valued DEF Gives
  <2>3. ValuesSpec!Next
    BY <2>1, <2>2, Creates
  <2> QED
    BY <2>1, <2>3 DEF Gives, AbstractStep
<1>5. ASSUME NEW c \in Columns, NEW k \in 0 .. Length - 1, NEW v \in Values, Scatter(c, k, v),
             UNCHANGED program
      PROVE  VInv' /\ AbstractStep
  <2>e. PICK e : e = [View(c) EXCEPT ![k] = v]
    OBVIOUS
  <2>k. k \in Nat /\ k \in Int
    BY LengthIsNat
  <2>1. Gives(c, e) /\ Live(c) /\ k < column[c].size
    BY <1>5, <2>e, <2>k, ScatterGives
  <2>2. /\ ValueNow[c] = View(c) /\ ValueNow[c] # None /\ column[c].size \in Lengths
        /\ DOMAIN ValueNow[c] = 0 .. column[c].size - 1 /\ ValueNow[c] \in Block(column[c].size)
    BY <2>1, Valued
  <2>n. PICK n \in Nat : n = column[c].size
    BY <2>2, <1>l
  <2>3. k \in Lengths /\ k + 1 \in Lengths /\ {k, (k + 1) - 1} \subseteq DOMAIN ValueNow[c]
    BY <2>1, <2>2, <2>k, <2>n, <1>l
  <2>4. e = [x \in DOMAIN ValueNow[c] |-> IF x \in k .. (k + 1) - 1 THEN v ELSE ValueNow[c][x]]
    <3>1. \A x \in 0 .. n - 1 : x \in k .. (k + 1) - 1 <=> x = k
      BY <2>k
    <3>2. e = [x \in DOMAIN ValueNow[c] |-> IF x = k THEN v ELSE ValueNow[c][x]]
      BY <2>e, <2>2 DEF Block
    <3> QED
      BY <2>2, <2>n, <3>1, <3>2
  <2>5. ValueNow' = [ValueNow EXCEPT ![c] = e] /\ LentNow' \in {LentNow, LentNow \ {c}} /\ VInv'
    BY <2>1 DEF Gives
  <2>6. ValuesSpec!Next
    BY <2>2, <2>3, <2>4, <2>5, Assigns
  <2> QED
    BY <2>5, <2>6 DEF AbstractStep
<1>6. ASSUME NEW c \in Columns, NEW i \in 0 .. Length, NEW j \in 0 .. Length, NEW v \in Values,
             Fill(c, i, j, v), UNCHANGED program
      PROVE  VInv' /\ AbstractStep
  <2>i. i \in Nat /\ j \in Nat /\ i \in Lengths /\ j \in Lengths
    BY <1>l DEF Lengths
  <2>1. Gives(c, Filled(c, i, j, v)) /\ Live(c) /\ i < j /\ j <= column[c].size
    BY <1>6, <2>i, FillGives
  <2>2. /\ ValueNow[c] = View(c) /\ ValueNow[c] # None /\ column[c].size \in Lengths
        /\ DOMAIN ValueNow[c] = 0 .. column[c].size - 1
    BY <2>1, Valued
  <2>n. PICK n \in Nat : n = column[c].size
    BY <2>2, <1>l
  <2>3. {i, j - 1} \subseteq DOMAIN ValueNow[c]
    BY <2>1, <2>2, <2>i, <2>n
  <2>4. Filled(c, i, j, v) = [k \in DOMAIN ValueNow[c] |-> IF k \in i .. j - 1 THEN v ELSE ValueNow[c][k]]
    BY <2>2 DEF Filled
  <2>5. /\ ValueNow' = [ValueNow EXCEPT ![c] = Filled(c, i, j, v)]
        /\ LentNow' \in {LentNow, LentNow \ {c}} /\ VInv'
    BY <2>1 DEF Gives
  <2>6. ValuesSpec!Next
    BY <2>2, <2>3, <2>4, <2>5, <2>i, Assigns
  <2> QED
    BY <2>5, <2>6 DEF AbstractStep
<1>7. ASSUME NEW c \in Columns, NEW d \in Columns, Copy(c, d) \/ CopyDeep(c, d), UNCHANGED program
      PROVE  VInv' /\ AbstractStep
  <2>1. Gives(d, View(c)) /\ Live(c) /\ ~Live(d)
    BY <1>7, CopyGives, CopyDeepGives
  <2>2. /\ ValueNow[c] # None /\ ValueNow[d] = None /\ LentNow' = LentNow /\ VInv'
        /\ ValueNow' = [ValueNow EXCEPT ![d] = ValueNow[c]]
    BY <2>1, Valued DEF Gives
  <2>3. ValuesSpec!Next
    BY <2>2, Copies
  <2> QED
    BY <2>2, <2>3 DEF AbstractStep
<1>8. ASSUME NEW c \in Columns, NEW d \in Columns, NEW i \in 0 .. Length, NEW j \in 0 .. Length,
             Slice(c, d, i, j), UNCHANGED program
      PROVE  VInv' /\ AbstractStep
  <2>i. i \in Nat /\ j \in Nat /\ i \in Lengths /\ j \in Lengths
    BY <1>l DEF Lengths
  <2>e. PICK e : e = [k \in 0 .. j - i - 1 |-> View(c)[i + k]]
    OBVIOUS
  <2>1. Gives(d, e) /\ Live(c) /\ ~Live(d) /\ i < j /\ j <= column[c].size
    BY <1>8, <2>i, <2>e, SliceGives
  <2>2. /\ ValueNow[c] = View(c) /\ ValueNow[c] # None /\ column[c].size \in Lengths
        /\ DOMAIN ValueNow[c] = 0 .. column[c].size - 1 /\ ValueNow[d] = None
    BY <2>1, Valued
  <2>n. PICK n \in Nat : n = column[c].size
    BY <2>2, <1>l
  <2>3. {i, j - 1} \subseteq DOMAIN ValueNow[c]
    BY <2>1, <2>2, <2>i, <2>n
  <2>4. ValueNow' = [ValueNow EXCEPT ![d] = e] /\ LentNow' = LentNow /\ VInv'
    BY <2>1 DEF Gives
  <2>5. ValueNow' = [ValueNow EXCEPT ![d] = [k \in 0 .. j - i - 1 |-> ValueNow[c][i + k]]]
    BY <2>2, <2>4, <2>e
  <2>6. ValuesSpec!Next
    BY <2>2, <2>3, <2>4, <2>5, <2>i, Slices
  <2> QED
    BY <2>4, <2>6 DEF AbstractStep
<1>9. ASSUME NEW c \in Columns, NEW x \in Arrays, NEW m \in Fresh, Adopt(c, x, m), UNCHANGED program
      PROVE  VInv' /\ AbstractStep
  <2>1. /\ VInv' /\ ~Live(c) /\ m \in Block(Length) /\ ValueNow' = [ValueNow EXCEPT ![c] = m]
        /\ LentNow' = LentNow \cup {c}
    BY <1>9, AdoptKeeps
  <2>2. ValuesSpec!Next
    BY <2>1, Valued, Creates
  <2> QED
    BY <2>1, <2>2 DEF AbstractStep
<1>10. ASSUME NEW x \in Arrays, ReleaseArray(x), UNCHANGED program PROVE VInv' /\ AbstractStep
  BY <1>10, ReleaseKeeps, Recovers DEF AbstractStep
<1>11. ASSUME NEW x \in Arrays, NEW k \in 0 .. Length - 1, NEW v \in Values, ExternalWrite(x, k, v),
              UNCHANGED program
       PROVE  VInv' /\ AbstractStep
  <2>k. k \in Nat /\ k < Length
    BY LengthIsNat
  <2>1. /\ VInv' /\ LentNow' = LentNow
        /\ \A c \in Columns : ValueNow'[c] = ValueNow[c] \/ Changes(c)
    BY <1>11, <2>k, ExternalWriteKeeps
  <2>2. ASSUME NEW c \in Columns
        PROVE  IF c \in LentNow THEN ValueNow'[c] \in [DOMAIN ValueNow[c] -> Values]
                                ELSE ValueNow'[c] = ValueNow[c]
    <3>1. CASE c \notin LentNow
      BY <2>1, <3>1 DEF Changes
    <3>2. CASE c \in LentNow
      <4>1. Live(c)
        BY <3>2, Valued
      <4>2. ValueNow'[c] \in Block(column[c].size)
        BY <2>1, <4>1, Valued DEF Changes
      <4> QED
        BY <3>2, <4>1, <4>2, Valued DEF Block
    <3> QED
      BY <3>1, <3>2
  <2>3. ValuesSpec!Next
    BY <2>1, <2>2, ThirdParties
  <2> QED
    BY <2>1, <2>3 DEF AbstractStep
<1>12. ASSUME NEW c \in Columns, NEW x \in Arrays, Interface(c, x) \/ ValuesOf(c, x) PROVE FALSE
  BY <1>12 DEF Interface, ValuesOf, Call, Independent, VInv, Storage
<1> QED
  BY <1>0, <1>1, <1>2, <1>3, <1>4, <1>5, <1>6, <1>7, <1>8, <1>9, <1>10, <1>11, <1>12 DEF Next

\* The invariant the theorems rest on: what a column refers to is in memory that exists, its cached
\* slice is the part of its base that it shows, and adopted memory is exposed and one column's.
THEOREM VInvHolds == Independent => (Spec => []VInv)
<1> SUFFICES ASSUME Independent PROVE Spec => []VInv
  OBVIOUS
<1>1. VInv /\ [Next]_vars => VInv'
  BY NextVInv
<1> QED
  BY <1>1, InitVInv, PTL DEF Spec

\* For programs that take no pointer out of a column and do not slice what they adopt, columns behave
\* as independent values: whatever buffers copies and slices share, a write through
\* make_single_owner_inplace changes its own column and no other.
THEOREM ValuesAreIndependent == Independent => (Spec => ImplementsValues)
<1> SUFFICES ASSUME Independent PROVE Spec => ImplementsValues
  OBVIOUS
<1>1. VInv /\ [Next]_vars => [ValuesSpec!Next]_ValuesSpec!vars
  BY NextVInv DEF AbstractStep
<1>2. Init => ValuesSpec!Init
  BY InitVInv
<1>3. Spec => []VInv
  BY VInvHolds
<1> QED
  BY <1>1, <1>2, <1>3, PTL DEF Spec, ImplementsValues, ValuesSpec!Spec

LEMMA Current == VInv => DataIsCurrent
<1> SUFFICES ASSUME VInv, NEW c \in Columns, Live(c), column[c].data # None
             PROVE  Content(Heap, column[c].data) = View(c)
  BY DEF DataIsCurrent
<1>n. PICK s \in BufferType, o \in Nat, z \in Nat :
        /\ s = buffer[column[c].base] /\ o = column[c].offset /\ z = column[c].size
        /\ Stored(Heap, s) /\ s.owner \in Owners /\ s.offset \in Nat /\ s.size \in Lengths
        /\ o \in Lengths /\ z \in Lengths /\ o + z <= s.size
        /\ column[c].data # None =>
             buffer[column[c].data] = [owner |-> s.owner, offset |-> s.offset + o, size |-> z]
  BY Numbers
<1>p. PICK p \in Nat, n \in Nat : p = s.offset /\ n = s.size
  BY <1>n, LengthIsNat DEF Lengths
<1>m. PICK m : m = memory[s.owner]
  OBVIOUS
<1>1. Heap.buffer = buffer /\ Heap.memory = memory
  BY DEF Heap
<1>2. Content(Heap, column[c].data) = [k \in 0 .. z - 1 |-> m[(p + o) + k]]
  BY <1>n, <1>p, <1>m, <1>1 DEF Content
<1>3. Content(Heap, column[c].base) = [k \in 0 .. n - 1 |-> m[p + k]]
  BY <1>n, <1>p, <1>m, <1>1 DEF Content
<1>4. View(c) = [k \in 0 .. z - 1 |-> Content(Heap, column[c].base)[o + k]]
  BY <1>n DEF View
<1>5. \A k \in 0 .. z - 1 : o + k \in 0 .. n - 1 /\ (p + o) + k = p + (o + k)
  BY <1>n, <1>p
<1>6. \A k \in 0 .. z - 1 : Content(Heap, column[c].base)[o + k] = m[(p + o) + k]
  BY <1>3, <1>5
<1> QED
  BY <1>2, <1>4, <1>6

LEMMA Within == VInv => ColumnsFitTheirBase
BY DEF VInv, ColumnsFitTheirBase, Fits, Heap

LEMMA Typed == VInv => TypeOK
<1> SUFFICES ASSUME VInv PROVE TypeOK
  OBVIOUS
<1>1. column \in [Columns -> [base : Buffers, data : Buffers \cup {None},
                              offset : 0 .. Length, size : 0 .. Length] \cup {None}]
  <2>1. column \in [Columns -> ColumnType \cup {None}]
    BY DEF VInv, IInv, Places
  <2>2. ASSUME NEW c \in Columns, column[c] # None
        PROVE  column[c] \in [base : Buffers, data : Buffers \cup {None}, offset : 0 .. Length, size : 0 .. Length]
    <3>1. column[c] \in ColumnType /\ column[c].offset \in 0 .. Length /\ column[c].size \in 0 .. Length
      BY <2>1, <2>2 DEF VInv, Fits, Live, Lengths
    <3> QED
      BY <3>1 DEF ColumnType
  <2> QED
    BY <2>1, <2>2
<1>2. buffer \in [Buffers -> [owner : Owners, offset : 0 .. Length, size : 0 .. Length] \cup {None}]
  <2>1. buffer \in [Buffers -> BufferType \cup {None}]
    BY HeapTypes
  <2>2. ASSUME NEW b \in LiveBuffers PROVE buffer[b].offset \in 0 .. Length /\ buffer[b].size \in 0 .. Length
    <3>1. b \in Buffers /\ b \notin Owners /\ b # None
      BY NamesAreApart DEF LiveBuffers
    <3>2. \A x \in Held : array[x].keeps # b
      BY <3>1, LentColumns DEF Adopted
    <3>3. PICK c \in Columns : Live(c) /\ b \in {column[c].base, column[c].data}
      BY <3>2 DEF LiveBuffers, Kept, Holders, Live
    <3>n. PICK s \in BufferType, o \in Nat, z \in Nat :
            /\ s = buffer[column[c].base] /\ o = column[c].offset /\ z = column[c].size
            /\ Stored(Heap, s) /\ s.owner \in Owners /\ s.offset \in Nat /\ s.size \in Lengths
            /\ o \in Lengths /\ z \in Lengths /\ o + z <= s.size
            /\ column[c].data # None =>
                 buffer[column[c].data] = [owner |-> s.owner, offset |-> s.offset + o, size |-> z]
      BY <3>3, Numbers
    <3>4. CASE b = column[c].base
      BY <3>4, <3>n DEF Stored, Lengths
    <3>5. CASE b = column[c].data
      <4>1. buffer[b].offset = s.offset + o /\ buffer[b].size = z
        BY <3>1, <3>5, <3>n
      <4>p. PICK p \in Nat, n \in Nat, l \in Nat :
              /\ p = s.offset /\ n = s.size /\ s.owner \in Owners
              /\ l \in Lengths /\ Heap.memory[s.owner] \in Block(l) /\ p + n <= l
        BY <3>n, StoredNumbers
      <4>2. l <= Length
        BY <4>p, LengthIsNat DEF Lengths
      <4>3. p + o \in 0 .. Length
        BY <4>p, <4>2, <3>n, LengthIsNat
      <4> QED
        BY <4>1, <4>3, <4>p, <3>n DEF Lengths
    <3> QED
      BY <3>3, <3>4, <3>5
  <2>3. ASSUME NEW b \in Buffers, buffer[b] # None
        PROVE  buffer[b] \in [owner : Owners, offset : 0 .. Length, size : 0 .. Length]
    <3>1. b \in LiveBuffers
      BY <2>3 DEF VInv, IInv, Dead
    <3> QED
      BY <2>1, <2>2, <2>3, <3>1 DEF BufferType
  <2> QED
    BY <2>1, <2>3
<1>3. slices \in [Owners -> SUBSET Buffers] /\ exposed \in [Owners -> BOOLEAN]
  BY DEF VInv, IInv, Sound, Heap, Storage
<1>4. \A o \in Owners : memory[o] # None => \E n \in 0 .. Length : memory[o] \in [0 .. n - 1 -> Values]
  BY DEF VInv, Storage, Blocks, Block, Lengths
<1>5. DOMAIN array = Arrays /\ \A x \in Arrays : array[x] # None =>
        array[x].owner \in Owners /\ array[x].of \in Columns \cup {None}
  BY DEF VInv, IInv, Places, ArrayType
<1> QED
  BY <1>1, <1>2, <1>3, <1>4, <1>5 DEF TypeOK

\* The cached _data that values_host reads shows what libcudf sees through base_data, offset and size.
THEOREM DataStaysCurrent == Independent => (Spec => []DataIsCurrent)
BY Current, VInvHolds, PTL

\* No call leaves a column that reaches past the end of its base_data.
THEOREM ColumnsFit == Independent => (Spec => []ColumnsFitTheirBase)
BY Within, VInvHolds, PTL

\* Columns, buffers, owners and arrays keep their types: lengths stay within those of the columns
\* that programs make.
THEOREM TypesStay == Independent => (Spec => []TypeOK)
BY Typed, VInvHolds, PTL
=============================================================================
