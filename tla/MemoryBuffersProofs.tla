------------------------- MODULE MemoryBuffersProofs -------------------------
(***************************************************************************)
(* The reference counts of the Java buffers are right, for any number of     *)
(* threads and objects: what MemoryBuffers checks on a small instance, but     *)
(* for its liveness.                                                        *)
(***************************************************************************)
EXTENDS MemoryBuffers, FiniteSetTheorems, WellFoundedInduction, TLAPS

(***************************************************************************)
(* Types.                                                                   *)
(***************************************************************************)
Kinds == Allocations \cup {"slice", "column"}
Pcs == {"enter", "clean", "free", "parents", "leave"}
Ops == {"close", "sweep", "exit"}
FrameType == [obj : Nat, op : Ops, pc : Pcs, next : Nat, cleaned : BOOLEAN, threw : BOOLEAN]
ObjectType ==
  [kind : Kinds, parents : Seq(Nat), refCount : Int, native : BOOLEAN, owning : BOOLEAN,
   backing : SUBSET Nat]

Types ==
  /\ mode \in Modes
  /\ object \in Seq(ObjectType) /\ Len(object) <= mode.objects
  /\ memory \in [Objects -> {"none", "live", "freed", "twice"}]
  /\ failed \subseteq Objects
  /\ references \in [Objects -> Nat]
  /\ monitor \in [Objects -> Threads \cup {None}] /\ cleanerMonitor \in [Objects -> Threads \cup {None}]
  /\ stack \in [Threads -> Seq(FrameType)]
  /\ all \subseteq Made /\ gone \subseteq Made /\ collected \subseteq gone
  /\ exit \in [pc : {"up", "both", "alone"}, todo : SUBSET Made]
  /\ rmm \in [pc : {"up", "looking", "refused", "down"}, todo : SUBSET Made]

(***************************************************************************)
(* The invariant.                                                           *)
(***************************************************************************)
Parents(o) == Range(object[o].parents)

\* An object is made of older ones, each once, and its data lie in theirs.
WellMade(o) ==
  /\ Parents(o) \subseteq 1 .. o - 1
  /\ \A i, j \in DOMAIN object[o].parents : object[o].parents[i] = object[o].parents[j] => i = j
  /\ object[o].kind \in {"slice", "column"} <=> object[o].parents # <<>>
  /\ object[o].kind = "mmap" => "mmap" \in mode.kinds
  /\ object[o].backing \subseteq Made
  /\ object[o].kind # "slice" => o \in object[o].backing
  /\ \A m \in object[o].backing :
       /\ object[m].kind # "slice"
       /\ m = o \/ \E p \in Parents(o) : m \in object[p].backing

\* The cleaner knows the native memory until it is freed, or could not be, and `all' knows the
\* cleaner until nothing is left to do.
Accounted(o) ==
  /\ object[o].owning => object[o].parents # <<>>
  /\ object[o].kind = "slice" => ~object[o].native /\ memory[o] = "none"
  /\ object[o].native => memory[o] = "live"
  /\ object[o].kind # "slice" /\ ~object[o].native => memory[o] \in {"freed", "twice"} \/ o \in failed
  /\ o \notin all => ~object[o].owning /\ (~object[o].native \/ o \in failed)

Unmade == \A o \in Objects \ Made : memory[o] = "none" /\ references[o] = 0

\* Calls wait in the clean of an object for the close of an older one.
Nested(t) ==
  \A k \in DOMAIN stack[t] :
    /\ k > 1 => stack[t][k].pc = "parents"
    /\ \A j \in 1 .. k - 1 : stack[t][j].obj < stack[t][k].obj /\ stack[t][j].op = "close"

\* What the caller of an object's close or clean knows, and what excludes others from it.
FrameOK(t, k) ==
  LET f == stack[t][k]
      o == f.obj
  IN  /\ o \in Made
      /\ f.op = "sweep" => t = Cleaner /\ o \in gone
      /\ f.op = "exit" => t = Hook /\ exit.pc # "up"
      /\ f.op = "close" => o \notin gone
      /\ f.op = "close" /\ f.pc # "enter" => monitor[o] = t
      /\ f.op = "close" /\ f.pc \notin {"enter", "leave"} => object[o].refCount = 0
      /\ f.pc = "enter" => f.op = "close"
      /\ f.pc \in {"enter", "clean", "free"} => f.next = 1 /\ ~f.threw /\ ~f.cleaned
      /\ f.pc \in {"free", "parents"} => object[o].kind = "mmap" \/ cleanerMonitor[o] = t
      /\ f.pc = "free" /\ (object[o].kind # "mmap" \/ ~mode.debug) => object[o].native
      /\ f.pc = "parents" =>
           /\ object[o].owning /\ f.next \in 1 .. Len(object[o].parents) + 1
           /\ ~object[o].native \/ o \in failed
           /\ ~f.threw => ~object[o].native
      /\ f.pc = "leave" =>
           /\ f.op = "sweep" => ~object[o].owning /\ (~object[o].native \/ o \in failed)
           /\ f.cleaned /\ ~f.threw => ~object[o].owning /\ ~object[o].native

Entered ==
  \A o \in Objects : monitor[o] # None =>
    \E k \in DOMAIN stack[monitor[o]] :
      /\ stack[monitor[o]][k].obj = o /\ stack[monitor[o]][k].op = "close"
      /\ stack[monitor[o]][k].pc # "enter"

\* The count is at least what MemTypeOK says.
Owners(o) == {c \in Made : Owns(c, o)}
Enterers(o) == {t \in Threads : Entering(t, o)}
Counts(o) ==
  /\ object[o].refCount <= MaxRefs + Len(object)
  /\ object[o].refCount >= references[o] + Cardinality(Owners(o)) + Cardinality(Enterers(o))

\* What was collected is not referred to.
Unreferenced ==
  \A o \in gone : references[o] = 0 /\ \A c \in Made : object[c].owning => o \notin Parents(c)

\* Before the virtual machine exits nobody cleans what has a reference or an owner.
Working(o) ==
  \E t \in Threads : \E k \in DOMAIN stack[t] :
    stack[t][k].obj = o /\ stack[t][k].pc \in {"clean", "free", "parents"}
Untouched(o) ==
  /\ object[o].kind # "slice" => object[o].native
  /\ object[o].parents # <<>> => object[o].owning
  /\ ~Working(o)
Alive(o) == references[o] > 0 \/ \E c \in Made : Owns(c, o)
Spared == exit.pc = "up" => \A o \in Made : Alive(o) => Untouched(o)
Exiting == (exit.todo # {} => exit.pc # "up") /\ (exit.pc # "up" => mode.debug)

\* Rmm.shutdown overlooks nothing.
Looked ==
  rmm.pc \in {"looking", "down"} =>
    \A m \in Made :
      object[m].kind \in {"device", "rmm"} /\ memory[m] = "live" /\ m \notin failed =>
        rmm.pc = "looking" /\ m \in rmm.todo

Heap == \A o \in Made : WellMade(o) /\ Accounted(o)
Calls == \A t \in Threads : Nested(t) /\ \A k \in DOMAIN stack[t] : FrameOK(t, k)
Counting == \A o \in Made : Counts(o)
Inv ==
  /\ Types /\ Heap /\ Unmade /\ Calls /\ Entered /\ Counting /\ Unreferenced /\ Spared /\ Exiting
  /\ Looked

(***************************************************************************)
(* Stacks.                                                                  *)
(***************************************************************************)
LEMMA Replaced ==
  ASSUME NEW s \in Seq(FrameType), s # <<>>, NEW f \in FrameType
  PROVE  LET r == <<f>> \o Tail(s)
         IN  /\ r \in Seq(FrameType) /\ DOMAIN r = DOMAIN s /\ 1 \in DOMAIN s /\ r[1] = f
             /\ \A k \in DOMAIN s \ {1} : r[k] = s[k]
OBVIOUS

LEMMA PushedOver ==
  ASSUME NEW s \in Seq(FrameType), s # <<>>, NEW f \in FrameType, NEW g \in FrameType
  PROVE  LET r == <<f, g>> \o Tail(s)
         IN  /\ r \in Seq(FrameType) /\ Len(r) = Len(s) + 1 /\ r[1] = f /\ r[2] = g
             /\ \A k \in 2 .. Len(s) : r[k + 1] = s[k]
OBVIOUS

LEMMA Popped ==
  ASSUME NEW s \in Seq(FrameType), Len(s) > 1, NEW g \in FrameType
  PROVE  LET r == <<g>> \o Tail(Tail(s))
         IN  /\ r \in Seq(FrameType) /\ Len(r) = Len(s) - 1 /\ r[1] = g /\ Head(Tail(s)) = s[2]
             /\ \A k \in 2 .. Len(s) - 1 : r[k] = s[k + 1]
<1>0. Tail(s) \in Seq(FrameType) /\ Len(Tail(s)) = Len(s) - 1
  OBVIOUS
<1>1. PICK u \in Seq(FrameType) : u = Tail(s)
  BY <1>0
<1>2. /\ Len(u) = Len(s) - 1 /\ u # <<>> /\ u[1] = s[2]
      /\ \A k \in 1 .. Len(s) - 1 : u[k] = s[k + 1]
  <2>1. \A k \in 1 .. Len(s) - 1 : Tail(s)[k] = s[k + 1]
    OBVIOUS
  <2>2. Len(u) = Len(s) - 1
    BY <1>0, <1>1
  <2>3. Len(<<>>) # Len(u)
    BY <2>2
  <2>4. 1 \in 1 .. Len(s) - 1 /\ 1 + 1 = 2
    OBVIOUS
  <2>5. Tail(s)[1] = s[2]
    BY <2>1, <2>4
  <2> QED
    BY <1>1, <2>1, <2>2, <2>3, <2>5
<1>3. /\ <<g>> \o Tail(u) \in Seq(FrameType) /\ DOMAIN (<<g>> \o Tail(u)) = DOMAIN u
      /\ (<<g>> \o Tail(u))[1] = g /\ \A k \in DOMAIN u \ {1} : (<<g>> \o Tail(u))[k] = u[k]
  BY <1>2, Replaced
<1>4. Head(u) = s[2]
  BY <1>2
<1>5. Len(<<g>> \o Tail(u)) = Len(u)
  BY <1>2
<1> QED
  BY <1>1, <1>2, <1>3, <1>4, <1>5

(***************************************************************************)
(* What no step does.                                                       *)
(***************************************************************************)
\* Objects stay as they were made; what is cleaned, failed, collected or exiting stays so.
Grows ==
  /\ mode' = mode /\ Len(object) <= Len(object')
  /\ \A o \in Made :
       /\ object'[o].kind = object[o].kind /\ object'[o].parents = object[o].parents
       /\ object'[o].backing = object[o].backing
       /\ object'[o].native => object[o].native
       /\ object'[o].owning => object[o].owning
  /\ failed \subseteq failed' /\ gone \subseteq gone'
  /\ exit.pc # "up" => exit'.pc # "up"

LEMMA MadeIs ==
  ASSUME Types
  PROVE  /\ Len(object) \in Nat /\ Made = 1 .. Len(object) /\ Made \subseteq Objects
         /\ Objects \subseteq Nat
         /\ \A o \in Made :
              /\ object[o] \in ObjectType /\ object[o].kind \in Kinds
              /\ object[o].parents \in Seq(Nat) /\ object[o].refCount \in Int
              /\ object[o].native \in BOOLEAN /\ object[o].owning \in BOOLEAN
<1>1. mode \in Modes /\ object \in Seq(ObjectType) /\ Len(object) <= mode.objects
  BY DEF Types
<1>2. mode.objects \in 0 .. MaxObjects
  BY <1>1, ModesAssumption
<1>3. MaxObjects \in Nat
  BY BoundsAssumption
<1>4. Made = 1 .. Len(object) /\ Len(object) \in Nat
  BY <1>1 DEF Made
<1>5. \A o \in Made : object[o] \in ObjectType
  BY <1>1, <1>4
<1> QED
  BY <1>1, <1>2, <1>3, <1>4, <1>5 DEF Objects, ObjectType

LEMMA MadeGrows ==
  ASSUME Types, Types', Grows
  PROVE  Made \subseteq Made'
<1>1. Made = 1 .. Len(object) /\ Made' = 1 .. Len(object') /\ Len(object) \in Nat /\ Len(object') \in Nat
  BY DEF Types, Made
<1> QED
  BY <1>1 DEF Grows

LEMMA FrameTyped ==
  ASSUME Types, NEW t \in Threads, NEW k \in DOMAIN stack[t]
  PROVE  /\ stack[t] \in Seq(FrameType) /\ k \in Nat /\ k \in 1 .. Len(stack[t])
         /\ Len(stack[t]) \in Nat /\ stack[t][k] \in FrameType
         /\ stack[t][k].obj \in Nat /\ stack[t][k].op \in Ops /\ stack[t][k].pc \in Pcs
         /\ stack[t][k].next \in Nat /\ stack[t][k].cleaned \in BOOLEAN /\ stack[t][k].threw \in BOOLEAN
<1>1. stack[t] \in Seq(FrameType)
  BY DEF Types
<1>2. k \in 1 .. Len(stack[t]) /\ Len(stack[t]) \in Nat
  BY <1>1
<1>3. stack[t][k] \in FrameType
  BY <1>1, <1>2
<1> QED
  BY <1>1, <1>2, <1>3 DEF FrameType

\* A call goes on to be all right if nobody takes its monitors or cleans its object.
LEMMA FrameStable ==
  ASSUME Types, Types', Grows, NEW t \in Threads, NEW k \in DOMAIN stack[t], FrameOK(t, k), NEW l,
         stack'[t][l] = stack[t][k],
         stack[t][k].op = "close" => stack[t][k].obj \notin gone',
         stack[t][k].op = "close" /\ stack[t][k].pc # "enter" => monitor'[stack[t][k].obj] = t,
         stack[t][k].op = "close" /\ stack[t][k].pc \notin {"enter", "leave"} =>
           object'[stack[t][k].obj].refCount = 0,
         stack[t][k].pc \in {"free", "parents"} /\ object[stack[t][k].obj].kind # "mmap" =>
           cleanerMonitor'[stack[t][k].obj] = t,
         stack[t][k].pc = "free" /\ (object[stack[t][k].obj].kind # "mmap" \/ ~mode.debug) =>
           object'[stack[t][k].obj].native,
         stack[t][k].pc = "parents" => object'[stack[t][k].obj].owning
  PROVE  FrameOK(t, l)'
<1>1. PICK f : f = stack[t][k]
  OBVIOUS
<1>2. stack'[t][l] = f
  BY <1>1
<1>3. Made \subseteq Made' /\ f.obj \in Made
  BY <1>1, MadeGrows DEF FrameOK
<1>4. /\ mode' = mode /\ failed \subseteq failed' /\ gone \subseteq gone'
      /\ exit.pc # "up" => exit'.pc # "up"
      /\ object'[f.obj].kind = object[f.obj].kind /\ object'[f.obj].parents = object[f.obj].parents
      /\ object'[f.obj].native => object[f.obj].native
      /\ object'[f.obj].owning => object[f.obj].owning
  BY <1>3 DEF Grows
<1> QED
  BY <1>1, <1>2, <1>3, <1>4 DEF FrameOK

LEMMA MadeKept ==
  ASSUME Types, Types', Grows, NEW o \in Made, WellMade(o), Heap
  PROVE  WellMade(o)'
<1>1. Made \subseteq Made' /\ o \in Made'
  BY MadeGrows
<1>2. Made \subseteq Nat /\ Made = 1 .. Len(object) /\ Len(object) \in Nat
  BY MadeIs
<1>3. /\ object'[o].kind = object[o].kind /\ object'[o].parents = object[o].parents
      /\ object'[o].backing = object[o].backing /\ mode' = mode
  BY DEF Grows
<1>4. Parents(o) \subseteq Made /\ object[o].backing \subseteq Made
  BY <1>2 DEF WellMade
<1>5. Parents(o)' = Parents(o)
  BY <1>3 DEF Parents, Range
<1>6. \A p \in Made : object'[p].kind = object[p].kind /\ object'[p].backing = object[p].backing
  BY DEF Grows
<1> QED
  BY <1>1, <1>3, <1>4, <1>5, <1>6 DEF WellMade

(***************************************************************************)
(* Steps that leave the calls alone.                                         *)
(***************************************************************************)
Bystander ==
  /\ stack' = stack /\ monitor' = monitor /\ cleanerMonitor' = cleanerMonitor
  /\ \A o \in Made :
       /\ object'[o].native = object[o].native /\ object'[o].owning = object[o].owning
       /\ object[o].refCount = 0 => object'[o].refCount = 0
  /\ \A o \in gone' \ gone : ~InUse(o)

LEMMA CallsKept ==
  ASSUME Inv, Types', Grows, Bystander
  PROVE  Calls' /\ Entered'
<1>1. Types /\ Calls /\ Entered
  BY DEF Inv
<1>2. ASSUME NEW t \in Threads, NEW k \in DOMAIN stack[t] PROVE FrameOK(t, k)'
  <2>1. FrameOK(t, k) /\ stack'[t][k] = stack[t][k]
    BY <1>1 DEF Calls, Bystander
  <2>2. stack[t][k].op = "close" => stack[t][k].obj \notin gone'
    <3>1. stack[t][k].op = "close" => InUse(stack[t][k].obj)
      BY DEF InUse
    <3> QED
      BY <2>1, <3>1 DEF Bystander, FrameOK
  <2>3. stack[t][k].obj \in Made
    BY <2>1 DEF FrameOK
  <2>4. /\ stack[t][k].op = "close" /\ stack[t][k].pc # "enter" => monitor'[stack[t][k].obj] = t
        /\ stack[t][k].op = "close" /\ stack[t][k].pc \notin {"enter", "leave"} =>
             object'[stack[t][k].obj].refCount = 0
        /\ stack[t][k].pc \in {"free", "parents"} /\ object[stack[t][k].obj].kind # "mmap" =>
             cleanerMonitor'[stack[t][k].obj] = t
        /\ stack[t][k].pc = "free" /\ (object[stack[t][k].obj].kind # "mmap" \/ ~mode.debug) =>
             object'[stack[t][k].obj].native
        /\ stack[t][k].pc = "parents" => object'[stack[t][k].obj].owning
    BY <2>1, <2>3 DEF Bystander, FrameOK
  <2> QED
    BY <1>1, <2>1, <2>2, <2>4, FrameStable
<1>3. Calls'
  BY <1>1, <1>2 DEF Calls, Nested, Bystander
<1>4. Entered'
  BY <1>1 DEF Entered, Bystander
<1> QED
  BY <1>3, <1>4

LEMMA ViewsKept ==
  ASSUME Inv, Types', Grows, Bystander, NEW o
  PROVE  /\ \A c \in Made : Owns(c, o)' <=> Owns(c, o)
         /\ Enterers(o)' = Enterers(o)
         /\ Working(o)' <=> Working(o)
<1>1. stack' = stack
  BY DEF Bystander
<1>2. \A c \in Made : object'[c].owning = object[c].owning /\ object'[c].parents = object[c].parents
  BY DEF Bystander, Grows
<1>3. \A c \in Made : Owns(c, o)' <=> Owns(c, o)
  BY <1>1, <1>2 DEF Owns, Range
<1>4. Enterers(o)' = Enterers(o)
  BY <1>1 DEF Enterers, Entering
<1>5. Working(o)' <=> Working(o)
  BY <1>1 DEF Working
<1> QED
  BY <1>3, <1>4, <1>5

(***************************************************************************)
(* New objects.                                                             *)
(***************************************************************************)
\* An update of an object's fields.
LEMMA Updated ==
  ASSUME Types, NEW p \in Made, NEW r \in ObjectType
  PROVE  LET u == [object EXCEPT ![p] = r]
         IN  /\ u \in Seq(ObjectType) /\ Len(u) = Len(object) /\ u[p] = r
             /\ \A q \in Made \ {p} : u[q] = object[q]
<1>1. object \in Seq(ObjectType) /\ p \in 1 .. Len(object)
  BY DEF Types, Made
<1> QED
  BY <1>1 DEF Made

LEMMA CountedIs ==
  ASSUME Types, NEW p \in Made, NEW n \in Int
  PROVE  /\ Counted(p, n) \in Seq(ObjectType) /\ Len(Counted(p, n)) = Len(object)
         /\ \A q \in Made \ {p} : Counted(p, n)[q] = object[q]
         /\ Counted(p, n)[p] = [object[p] EXCEPT !.refCount = object[p].refCount + n]
         /\ Counted(p, n)[p].refCount = object[p].refCount + n
<1>1. PICK r : r = [object[p] EXCEPT !.refCount = object[p].refCount + n]
  OBVIOUS
<1>2. object[p] \in ObjectType /\ object[p].refCount \in Int
  BY MadeIs
<1>3. r \in ObjectType /\ r.refCount = object[p].refCount + n
  BY <1>1, <1>2 DEF ObjectType
<1>4. Counted(p, n) = [object EXCEPT ![p] = r]
  BY <1>1 DEF Counted
<1> QED
  BY <1>1, <1>3, <1>4, Updated

\* The references that make a new object, and what it refers to.
Makes(kind, parents) ==
  /\ Room /\ kind \in Kinds /\ parents \in Seq(Nat) /\ Range(parents) \subseteq Made
  /\ \A i, j \in DOMAIN parents : parents[i] = parents[j] => i = j
  /\ kind \in {"slice", "column"} <=> parents # <<>>
  /\ kind \in Allocations => kind \in mode.kinds /\ rmm.pc = "up"
  /\ \A p \in Range(parents) : references[p] > 0
  /\ references' \in [Objects -> Nat] /\ references'[Fresh] = 1
  /\ \A o \in Objects \ {Fresh} : references'[o] > 0 => references[o] > 0

\* The objects as they are when one is added.
Recounted(objects) ==
  /\ objects \in Seq(ObjectType) /\ Len(objects) = Len(object)
  /\ \A o \in Made :
       /\ objects[o] = [object[o] EXCEPT !.refCount = objects[o].refCount]
       /\ object[o].refCount = 0 => objects[o].refCount = 0

LEMMA NewIs ==
  ASSUME Inv, NEW kind, NEW parents, Makes(kind, parents)
  PROVE  /\ New(kind, parents) \in ObjectType
         /\ New(kind, parents).kind = kind /\ New(kind, parents).parents = parents
         /\ New(kind, parents).refCount = 1
         /\ New(kind, parents).native = (kind # "slice") /\ New(kind, parents).owning = (parents # <<>>)
         /\ New(kind, parents).backing \subseteq Made \cup {Fresh}
         /\ New(kind, parents).backing =
              (IF kind = "slice" THEN {} ELSE {Fresh}) \cup UNION {object[p].backing : p \in Range(parents)}
         /\ Fresh \in Objects /\ Fresh \notin Made
<1>1. Types /\ Heap
  BY DEF Inv
<1>2. Made = 1 .. Len(object) /\ Len(object) \in Nat /\ Made \subseteq Nat
  BY <1>1, MadeIs
<1>3. mode.objects \in 0 .. MaxObjects /\ MaxObjects \in Nat
  BY <1>1, ModesAssumption, BoundsAssumption DEF Types
<1>4. Fresh \in Objects /\ Fresh \notin Made /\ Fresh \in Nat
  BY <1>2, <1>3 DEF Fresh, Makes, Room, Objects
<1>5. \A p \in Range(parents) : object[p].backing \subseteq Made
  BY <1>1 DEF Heap, WellMade, Makes
<1>6. New(kind, parents).backing =
        (IF kind = "slice" THEN {} ELSE {Fresh}) \cup UNION {object[p].backing : p \in Range(parents)}
  BY DEF New
<1>7. New(kind, parents).backing \subseteq Made \cup {Fresh}
  BY <1>5, <1>6
<1>8. /\ New(kind, parents).kind = kind /\ New(kind, parents).parents = parents
      /\ New(kind, parents).refCount = 1
      /\ New(kind, parents).native = (kind # "slice") /\ New(kind, parents).owning = (parents # <<>>)
  BY DEF New
<1>9. New(kind, parents) \in ObjectType
  <2>1. New(kind, parents).backing \in SUBSET Nat
    BY <1>2, <1>4, <1>7
  <2> QED
    BY <2>1 DEF New, ObjectType, Makes
<1> QED
  BY <1>4, <1>6, <1>7, <1>8, <1>9

LEMMA Registered ==
  ASSUME Inv, NEW kind, NEW parents, NEW objects, Makes(kind, parents), Recounted(objects),
         Register(objects, kind, parents)
  PROVE  /\ Types' /\ Grows /\ Bystander
         /\ object'[Fresh] = New(kind, parents) /\ Made' = Made \cup {Fresh}
         /\ \A o \in Made : object'[o] = objects[o]
<1>1. Types /\ Heap
  BY DEF Inv
<1>2. /\ Made = 1 .. Len(object) /\ Len(object) \in Nat /\ Made \subseteq Nat
      /\ New(kind, parents) \in ObjectType /\ Fresh \in Objects /\ Fresh = Len(object) + 1
  BY <1>1, MadeIs, NewIs DEF Fresh
<1>3. /\ object' = Append(objects, New(kind, parents))
      /\ memory' = [memory EXCEPT ![Fresh] = IF kind = "slice" THEN "none" ELSE "live"]
      /\ all' = all \cup {Fresh}
      /\ UNCHANGED <<mode, failed, collected, gone, callVars, exit, rmm>>
  BY DEF Register
<1>4. objects \in Seq(ObjectType) /\ Len(objects) = Len(object)
  BY DEF Recounted
<1>5. /\ object' \in Seq(ObjectType) /\ Len(object') = Len(object) + 1
      /\ object'[Len(object) + 1] = New(kind, parents)
      /\ \A o \in 1 .. Len(object) : object'[o] = objects[o]
  <2>1. PICK n \in ObjectType : n = New(kind, parents)
    BY <1>2
  <2>2. object' = Append(objects, n)
    BY <1>3, <2>1
  <2> QED
    BY <1>2, <1>4, <2>1, <2>2
<1>6. Made' = Made \cup {Fresh}
  <2>1. Made' = 1 .. Len(object')
    BY <1>5 DEF Made
  <2> QED
    BY <1>2, <1>5, <2>1
<1>7. \A o \in Made : object'[o] = [object[o] EXCEPT !.refCount = objects[o].refCount]
  BY <1>2, <1>5 DEF Recounted
<1>8. Types'
  <2>1. mode' = mode /\ Len(object) < mode.objects
    BY <1>3 DEF Makes, Room
  <2>2. mode.objects \in Nat
    BY <1>1, ModesAssumption, BoundsAssumption DEF Types
  <2>3. Len(object') <= mode'.objects
    BY <1>2, <1>5, <2>1, <2>2
  <2>4. memory' \in [Objects -> {"none", "live", "freed", "twice"}]
    BY <1>1, <1>3 DEF Types
  <2>5. references' \in [Objects -> Nat]
    BY DEF Makes
  <2>6. UNCHANGED <<failed, collected, gone, monitor, cleanerMonitor, stack, exit, rmm>>
    BY <1>3 DEF callVars
  <2>7. all' \subseteq Made' /\ gone' \subseteq Made' /\ collected' \subseteq gone'
    BY <1>1, <1>3, <1>6, <2>6 DEF Types
  <2>8. /\ exit' \in [pc : {"up", "both", "alone"}, todo : SUBSET Made']
        /\ rmm' \in [pc : {"up", "looking", "refused", "down"}, todo : SUBSET Made']
    BY <1>1, <1>6, <2>6 DEF Types
  <2> QED
    BY <1>1, <1>5, <2>1, <2>3, <2>4, <2>5, <2>6, <2>7, <2>8 DEF Types
<1>9. \A o \in Made :
        /\ object'[o].kind = object[o].kind /\ object'[o].parents = object[o].parents
        /\ object'[o].backing = object[o].backing
        /\ object'[o].native = object[o].native
        /\ object'[o].owning = object[o].owning
        /\ object'[o].refCount = objects[o].refCount
  <2>1. \A o \in Made : object[o] \in ObjectType
    BY <1>1, MadeIs
  <2> QED
    BY <1>7, <2>1 DEF ObjectType
<1>10. Grows
  BY <1>2, <1>3, <1>5, <1>9 DEF Grows
<1>11. Bystander
  BY <1>3, <1>9 DEF Bystander, callVars, Recounted
<1> QED
  BY <1>2, <1>5, <1>6, <1>8, <1>10, <1>11

LEMMA RegisteredOwners ==
  ASSUME Inv, NEW kind, NEW parents, NEW objects, Makes(kind, parents), Recounted(objects),
         Register(objects, kind, parents), NEW x, x = Fresh
  PROVE  /\ \A o \in Made :
              /\ Owners(o)' = Owners(o) \cup (IF o \in Range(parents) THEN {x} ELSE {})
              /\ Enterers(o)' = Enterers(o)
              /\ Working(o)' <=> Working(o)
         /\ Owners(x)' = {} /\ Enterers(x)' = {} /\ ~Working(x)'
<1>1. Types /\ Heap /\ Calls
  BY DEF Inv
<1>2. /\ Types' /\ Grows /\ Bystander /\ object'[Fresh] = New(kind, parents)
      /\ Made' = Made \cup {Fresh}
  BY Registered
<1>3. /\ New(kind, parents).parents = parents /\ New(kind, parents).owning = (parents # <<>>)
      /\ Fresh \notin Made
  BY NewIs
<1>4. \A t \in Threads : \A k \in DOMAIN stack[t] : stack[t][k].obj # x
  BY <1>1, <1>3 DEF Calls, FrameOK
<1>5. stack' = stack
  BY <1>2 DEF Bystander
<1>6. ASSUME NEW o PROVE Owns(x, o)' <=> o \in Range(parents)
  <2>1. object'[x].parents = parents /\ object'[x].owning = (parents # <<>>)
    BY <1>2, <1>3
  <2>2. \A t \in Threads : \A k \in DOMAIN stack'[t] : stack'[t][k].obj # x
    BY <1>4, <1>5
  <2>3. o \in Range(parents) => parents # <<>>
    BY DEF Range
  <2>4. (object'[x].owning /\ o \in Range(object'[x].parents)) <=> o \in Range(parents)
    BY <2>1, <2>3
  <2> QED
    BY <2>2, <2>4 DEF Owns
<1>7. \A o \in Made : Enterers(o)' = Enterers(o) /\ (Working(o)' <=> Working(o))
  BY <1>2, ViewsKept
<1>8. ASSUME NEW o PROVE \A c \in Made : Owns(c, o)' <=> Owns(c, o)
  BY <1>2, ViewsKept
<1>9. ASSUME NEW o
      PROVE  Owners(o)' = Owners(o) \cup (IF o \in Range(parents) THEN {x} ELSE {})
  <2>1. Made' = Made \cup {x}
    BY <1>2
  <2> QED
    BY <1>6, <1>8, <2>1 DEF Owners
<1>10. \A c \in Made : x \notin Parents(c)
  <2>1. Made \subseteq Nat /\ Made = 1 .. Len(object)
    BY <1>1, MadeIs
  <2>2. \A c \in Made : Parents(c) \subseteq Made
    BY <1>1, <2>1 DEF Heap, WellMade
  <2> QED
    BY <1>3, <2>2
<1>11. Owners(x) = {}
  BY <1>10 DEF Owners, Owns, Parents
<1>12. x \notin Range(parents)
  BY <1>3 DEF Makes
<1>13. Enterers(x)' = {} /\ ~Working(x)'
  BY <1>4, <1>5 DEF Enterers, Entering, Working
<1> QED
  BY <1>7, <1>9, <1>11, <1>12, <1>13

LEMMA RegisterStep ==
  ASSUME Inv, NEW kind, NEW parents, NEW objects, Makes(kind, parents), Recounted(objects),
         Register(objects, kind, parents)
  PROVE  Heap' /\ Unmade' /\ Unreferenced' /\ Spared' /\ Exiting' /\ Looked'
<1> PICK x : x = Fresh
  OBVIOUS
<1> PICK n : n = New(kind, parents)
  OBVIOUS
<1>1. Types /\ Heap /\ Unmade /\ Calls /\ Unreferenced /\ Spared /\ Exiting /\ Looked
  BY DEF Inv
<1>2. /\ Types' /\ Grows /\ Bystander /\ object'[x] = n /\ Made' = Made \cup {x}
      /\ \A o \in Made : object'[o] = objects[o]
  BY Registered
<1>3. /\ n.kind = kind /\ n.parents = parents
      /\ n.native = (kind # "slice") /\ n.owning = (parents # <<>>)
      /\ n.backing \subseteq Made \cup {x}
      /\ n.backing = (IF kind = "slice" THEN {} ELSE {x}) \cup UNION {object[p].backing : p \in Range(parents)}
      /\ x \in Objects /\ x \notin Made
  BY NewIs
<1>4. /\ memory' = [memory EXCEPT ![x] = IF kind = "slice" THEN "none" ELSE "live"]
      /\ all' = all \cup {x} /\ UNCHANGED <<mode, failed, gone, exit, rmm>>
  BY DEF Register
<1>5. /\ Made = 1 .. Len(object) /\ Len(object) \in Nat /\ Made \subseteq Objects /\ x = Len(object) + 1
  BY <1>1, MadeIs DEF Fresh
<1>6. \A o \in Made : memory'[o] = memory[o]
  BY <1>1, <1>3, <1>4, <1>5 DEF Types
<1>7. \A o \in Made :
        /\ object'[o].kind = object[o].kind /\ object'[o].parents = object[o].parents
        /\ object'[o].backing = object[o].backing /\ object'[o].native = object[o].native
        /\ object'[o].owning = object[o].owning
  BY <1>2 DEF Grows, Bystander
<1>8. memory'[x] = IF kind = "slice" THEN "none" ELSE "live"
  BY <1>1, <1>3, <1>4 DEF Types
<1>9. Heap'
  <2>1. ASSUME NEW o \in Made PROVE WellMade(o)' /\ Accounted(o)'
    <3>1. WellMade(o)'
      BY <1>1, <1>2, MadeKept DEF Heap
    <3>2. Accounted(o)'
      BY <1>1, <1>4, <1>6, <1>7 DEF Heap, Accounted
    <3> QED
      BY <3>1, <3>2
  <2>2. WellMade(x)'
    <3>1. Parents(x)' = Range(parents) /\ Range(parents) \subseteq Made
      BY <1>2, <1>3 DEF Parents, Makes
    <3>2. Parents(x)' \subseteq 1 .. x - 1
      BY <1>5, <3>1
    <3>3. object'[x].backing \subseteq Made' /\ (kind # "slice" => x \in object'[x].backing)
      BY <1>2, <1>3
    <3>4. ASSUME NEW m \in object'[x].backing
          PROVE  object'[m].kind # "slice" /\ (m = x \/ \E p \in Parents(x)' : m \in object'[p].backing)
      <4>1. CASE m = x
        <5>1. x \in object'[x].backing => kind # "slice"
          <6>1. \A p \in Range(parents) : object[p].backing \subseteq Made
            BY <1>1, <3>1 DEF Heap, WellMade
          <6> QED
            BY <1>2, <1>3, <6>1
        <5> QED
          BY <1>2, <1>3, <4>1, <5>1
      <4>2. CASE m # x
        <5>1. PICK p \in Range(parents) : m \in object[p].backing
          BY <1>2, <1>3, <4>2
        <5>2. p \in Made /\ m \in Made /\ object[m].kind # "slice"
          BY <1>1, <3>1, <5>1 DEF Heap, WellMade
        <5> QED
          BY <1>7, <3>1, <5>1, <5>2
      <4> QED
        BY <4>1, <4>2
    <3>5. \A i, j \in DOMAIN object'[x].parents : object'[x].parents[i] = object'[x].parents[j] => i = j
      BY <1>2, <1>3 DEF Makes
    <3>6. /\ object'[x].kind \in {"slice", "column"} <=> object'[x].parents # <<>>
          /\ object'[x].kind = "mmap" => "mmap" \in mode'.kinds
      BY <1>2, <1>3, <1>4 DEF Makes, Allocations
    <3>7. object'[x].kind = kind
      BY <1>2, <1>3
    <3> QED
      BY <3>2, <3>3, <3>4, <3>5, <3>6, <3>7 DEF WellMade
  <2>3. Accounted(x)'
    BY <1>2, <1>3, <1>4, <1>8 DEF Accounted
  <2> QED
    BY <1>2, <2>1, <2>2, <2>3 DEF Heap
<1>10. Unmade'
  BY <1>1, <1>2, <1>3, <1>4 DEF Unmade, Makes, Types
<1>11. \A p \in Range(parents) : p \in Made /\ references[p] > 0
  BY DEF Makes
<1>12. Unreferenced'
  <2>1. ASSUME NEW o \in gone PROVE references'[o] = 0
    <3>1. o \in Made /\ o \in Objects /\ references[o] = 0
      BY <1>1, <1>5 DEF Unreferenced, Types
    <3>2. references'[o] \in Nat /\ ~(references'[o] > 0)
      BY <1>3, <3>1 DEF Makes
    <3> QED
      BY <3>2
  <2>2. ASSUME NEW o \in gone, NEW c \in Made', object'[c].owning PROVE o \notin Parents(c)'
    <3>1. CASE c = x
      <4>1. Parents(c)' = Range(parents)
        BY <1>2, <1>3, <3>1 DEF Parents
      <4>2. references[o] = 0
        BY <1>1 DEF Unreferenced
      <4> QED
        BY <1>11, <4>1, <4>2
    <3>2. CASE c # x
      <4>1. c \in Made /\ Parents(c)' = Parents(c) /\ object[c].owning
        BY <1>2, <1>7, <2>2, <3>2 DEF Parents
      <4> QED
        BY <1>1, <4>1 DEF Unreferenced
    <3> QED
      BY <3>1, <3>2
  <2> QED
    BY <1>4, <2>1, <2>2 DEF Unreferenced
<1>13. Spared'
  <2> SUFFICES ASSUME exit'.pc = "up", NEW o \in Made', Alive(o)' PROVE Untouched(o)'
    BY DEF Spared
  <2>1. CASE o = x
    BY <1>2, <1>3, <2>1, RegisteredOwners DEF Untouched
  <2>2. CASE o # x
    <3>1. o \in Made
      BY <1>2, <2>2
    <3>2. /\ Owners(o)' = Owners(o) \cup (IF o \in Range(parents) THEN {x} ELSE {})
          /\ Working(o)' <=> Working(o)
      BY <3>1, RegisteredOwners
    <3>3. Alive(o)
      <4>1. references'[o] > 0 => references[o] > 0
        BY <1>3, <1>5, <3>1 DEF Makes
      <4>2. (\E c \in Made' : Owns(c, o)') => Owners(o)' # {}
        BY DEF Owners
      <4>3. Owners(o) # {} => \E c \in Made : Owns(c, o)
        BY DEF Owners
      <4> QED
        BY <1>11, <3>2, <4>1, <4>2, <4>3 DEF Alive
    <3>4. Untouched(o)
      BY <1>1, <1>4, <3>1, <3>3 DEF Spared
    <3> QED
      BY <1>7, <3>1, <3>2, <3>4 DEF Untouched
  <2> QED
    BY <2>1, <2>2
<1>14. Exiting'
  BY <1>1, <1>4 DEF Exiting
<1>15. Looked'
  <2>1. rmm.pc \in {"looking", "down"} => kind \notin {"device", "rmm"}
    BY DEF Makes, Allocations
  <2> QED
    BY <1>1, <1>2, <1>3, <1>4, <1>6, <1>7, <2>1 DEF Looked
<1> QED
  BY <1>9, <1>10, <1>12, <1>13, <1>14, <1>15

LEMMA CountsAreNumbers ==
  ASSUME Types, NEW o
  PROVE  /\ IsFiniteSet(Owners(o)) /\ Cardinality(Owners(o)) \in Nat
         /\ IsFiniteSet(Enterers(o)) /\ Cardinality(Enterers(o)) \in Nat
<1>1. Made = 1 .. Len(object) /\ Len(object) \in Nat
  BY MadeIs
<1>2. IsFiniteSet(Made)
  BY <1>1, FS_Interval
<1>3. IsFiniteSet(Threads)
  <2>1. IsFiniteSet({Cleaner, Hook})
    <3>1. IsFiniteSet({Cleaner}) /\ {Cleaner, Hook} = {Cleaner} \cup {Hook}
      BY FS_Singleton
    <3> QED
      BY <3>1, FS_AddElement
  <2> QED
    BY <2>1, ThreadsAssumption, FS_Union DEF Threads
<1>4. Owners(o) \in SUBSET Made /\ Enterers(o) \in SUBSET Threads
  BY DEF Owners, Enterers
<1>5. IsFiniteSet(Owners(o)) /\ IsFiniteSet(Enterers(o))
  BY <1>2, <1>3, <1>4, FS_Subset
<1> QED
  BY <1>5, FS_CardinalityType

LEMMA RegisterCounts ==
  ASSUME Inv, NEW kind, NEW parents, NEW objects, Makes(kind, parents), Recounted(objects),
         Register(objects, kind, parents),
         \A o \in Made :
           /\ objects[o].refCount <= object[o].refCount + 1
           /\ objects[o].refCount - references'[o] >=
                object[o].refCount - references[o] + (IF o \in Range(parents) THEN 1 ELSE 0)
  PROVE  Counting'
<1> PICK x : x = Fresh
  OBVIOUS
<1>1. Types /\ Counting
  BY DEF Inv
<1>2. /\ Types' /\ Grows /\ Bystander /\ object'[x] = New(kind, parents) /\ Made' = Made \cup {x}
      /\ \A o \in Made : object'[o] = objects[o]
  BY Registered
<1>3. Len(object) \in Nat /\ Made \subseteq Objects /\ Len(object') = Len(object) + 1
  <2>1. Made = 1 .. Len(object) /\ Len(object) \in Nat /\ Made \subseteq Objects
    BY <1>1, MadeIs
  <2>2. Made' = 1 .. Len(object') /\ Len(object') \in Nat
    <3>1. object' \in Seq(ObjectType)
      BY <1>2 DEF Types
    <3>2. DOMAIN object' = 1 .. Len(object') /\ Len(object') \in Nat
      BY <3>1
    <3> QED
      BY <3>2 DEF Made
  <2>3. x = Len(object) + 1
    BY DEF Fresh
  <2>4. Len(object) + 1 \in 1 .. Len(object')
    BY <1>2, <2>2, <2>3
  <2>5. Len(object') \in 1 .. Len(object) \cup {Len(object) + 1}
    BY <1>2, <2>1, <2>2, <2>3, <2>4
  <2> QED
    BY <2>1, <2>2, <2>4, <2>5
<1>4. MaxRefs \in Nat
  BY BoundsAssumption
<1>5. ASSUME NEW o \in Made PROVE Counts(o)'
  <2>1. /\ Owners(o)' = Owners(o) \cup (IF o \in Range(parents) THEN {x} ELSE {})
        /\ Enterers(o)' = Enterers(o)
    BY RegisteredOwners
  <2>2. /\ IsFiniteSet(Owners(o)) /\ Cardinality(Owners(o)) \in Nat
        /\ Cardinality(Enterers(o)) \in Nat
    BY <1>1, CountsAreNumbers
  <2>3. PICK more \in {0, 1} : more = IF o \in Range(parents) THEN 1 ELSE 0
    OBVIOUS
  <2>4. /\ Cardinality(Owners(o)') \in Nat
        /\ Cardinality(Owners(o)') <= Cardinality(Owners(o)) + more
    <3>1. CASE o \in Range(parents)
      <4>1. Owners(o)' = Owners(o) \cup {x}
        BY <2>1, <3>1
      <4>2. Cardinality(Owners(o) \cup {x}) =
              IF x \in Owners(o) THEN Cardinality(Owners(o)) ELSE Cardinality(Owners(o)) + 1
        BY <2>2, FS_AddElement
      <4>3. more = 1
        BY <2>3, <3>1
      <4> QED
        BY <2>2, <4>1, <4>2, <4>3
    <3>2. CASE o \notin Range(parents)
      <4>1. Owners(o)' = Owners(o) /\ more = 0
        BY <2>1, <2>3, <3>2
      <4> QED
        BY <2>2, <4>1
    <3> QED
      BY <3>1, <3>2
  <2>5. /\ object[o].refCount \in Int /\ objects[o].refCount \in Int
        /\ references[o] \in Nat /\ references'[o] \in Nat
    <3>1. object[o].refCount \in Int /\ objects[o] \in ObjectType
      <4>1. o \in 1 .. Len(object) /\ objects \in Seq(ObjectType) /\ Len(objects) = Len(object)
        BY <1>1, MadeIs DEF Recounted
      <4> QED
        BY <1>1, <4>1, MadeIs
    <3> QED
      BY <1>1, <1>2, <1>3, <3>1 DEF Types, ObjectType
  <2>6. /\ object[o].refCount <= MaxRefs + Len(object)
        /\ object[o].refCount >= references[o] + Cardinality(Owners(o)) + Cardinality(Enterers(o))
    BY <1>1 DEF Counting, Counts
  <2>7. /\ objects[o].refCount <= MaxRefs + Len(object')
        /\ objects[o].refCount >= references'[o] + Cardinality(Owners(o)') + Cardinality(Enterers(o))
    <3>1. PICK r \in Int, s \in Int, p \in Nat, q \in Nat, w \in Nat, v \in Nat, e \in Nat :
            /\ r = object[o].refCount /\ s = objects[o].refCount
            /\ p = references[o] /\ q = references'[o]
            /\ w = Cardinality(Owners(o)) /\ v = Cardinality(Owners(o)') /\ e = Cardinality(Enterers(o))
      BY <2>2, <2>4, <2>5
    <3>2. /\ objects[o].refCount <= object[o].refCount + 1
          /\ objects[o].refCount - references'[o] >= object[o].refCount - references[o] + more
      BY <2>3
    <3>3. objects[o].refCount <= MaxRefs + Len(object')
      BY <1>3, <1>4, <2>5, <2>6, <3>2
    <3>4. s - q >= r - p + more /\ v <= w + more /\ r >= p + w + e
      BY <2>4, <2>6, <3>1, <3>2
    <3>5. s >= q + v + e
      BY <3>4
    <3> QED
      BY <3>1, <3>3, <3>5
  <2> QED
    BY <1>2, <2>1, <2>7 DEF Counts
<1>6. Counts(x)'
  <2>1. Owners(x)' = {} /\ Enterers(x)' = {}
    BY RegisteredOwners
  <2>2. object'[x].refCount = 1 /\ references'[x] = 1
    BY <1>2, NewIs DEF Makes
  <2>3. Cardinality({}) = 0
    BY FS_EmptySet
  <2>4. 1 <= MaxRefs + Len(object') /\ 1 >= 1 + 0 + 0
    BY <1>3, <1>4
  <2> QED
    BY <2>1, <2>2, <2>3, <2>4 DEF Counts
<1> QED
  BY <1>2, <1>5, <1>6 DEF Counting

LEMMA RegisterInv ==
  ASSUME Inv, NEW kind, NEW parents, NEW objects, Makes(kind, parents), Recounted(objects),
         Register(objects, kind, parents),
         \A o \in Made :
           /\ objects[o].refCount <= object[o].refCount + 1
           /\ objects[o].refCount - references'[o] >=
                object[o].refCount - references[o] + (IF o \in Range(parents) THEN 1 ELSE 0)
  PROVE  Inv'
<1>1. Types' /\ Grows /\ Bystander
  BY Registered
<1>2. Calls' /\ Entered'
  BY <1>1, CallsKept
<1>3. Heap' /\ Unmade' /\ Unreferenced' /\ Spared' /\ Exiting' /\ Looked'
  BY RegisterStep
<1>4. Counting'
  BY RegisterCounts
<1> QED
  BY <1>1, <1>2, <1>3, <1>4 DEF Inv

LEMMA SameCounts ==
  ASSUME Types
  PROVE  Recounted(object)
<1>1. \A o \in Made : object[o] \in ObjectType
  BY MadeIs
<1>2. \A o \in Made : object[o] = [object[o] EXCEPT !.refCount = object[o].refCount]
  BY <1>1 DEF ObjectType
<1> QED
  BY <1>2 DEF Recounted, Types

\* An object that has a reference counts it.
LEMMA HeldIsCounted ==
  ASSUME Inv, NEW o \in Made
  PROVE  /\ references[o] \in Nat /\ object[o].refCount \in Int
         /\ object[o].refCount >= references[o]
         /\ Alive(o) => object[o].refCount >= 1
         /\ Enterers(o) # {} => object[o].refCount >= 1
<1>1. Types /\ Counts(o)
  BY DEF Inv, Counting
<1>2. /\ IsFiniteSet(Owners(o)) /\ Cardinality(Owners(o)) \in Nat
      /\ IsFiniteSet(Enterers(o)) /\ Cardinality(Enterers(o)) \in Nat
  BY <1>1, CountsAreNumbers
<1>3. references[o] \in Nat /\ object[o].refCount \in Int
  <2>1. o \in Objects
    BY <1>1, MadeIs
  <2> QED
    BY <1>1, <2>1, MadeIs DEF Types
<1>4. Owners(o) # {} => Cardinality(Owners(o)) >= 1
  <2>1. Cardinality(Owners(o)) = 0 <=> Owners(o) = {}
    BY <1>2, FS_EmptySet
  <2> QED
    BY <1>2, <2>1
<1>5. Enterers(o) # {} => Cardinality(Enterers(o)) >= 1
  <2>1. Cardinality(Enterers(o)) = 0 <=> Enterers(o) = {}
    BY <1>2, FS_EmptySet
  <2> QED
    BY <1>2, <2>1
<1>6. Alive(o) => references[o] > 0 \/ Owners(o) # {}
  BY DEF Alive, Owners
<1>7. object[o].refCount >= references[o] + Cardinality(Owners(o)) + Cardinality(Enterers(o))
  BY <1>1 DEF Counts
<1>8. PICK r \in Int, p \in Nat, w \in Nat, e \in Nat :
        /\ r = object[o].refCount /\ p = references[o]
        /\ w = Cardinality(Owners(o)) /\ e = Cardinality(Enterers(o))
  BY <1>2, <1>3
<1>9. r >= p + w + e
  BY <1>7, <1>8
<1>10. r >= p /\ (p > 0 => r >= 1) /\ (w >= 1 => r >= 1) /\ (e >= 1 => r >= 1)
  BY <1>9
<1> QED
  BY <1>3, <1>4, <1>5, <1>6, <1>8, <1>10

LEMMA RecountedByOne ==
  ASSUME Inv, NEW o \in Made, references[o] > 0
  PROVE  Recounted(Counted(o, 1))
<1>1. Types
  BY DEF Inv
<1>2. /\ Counted(o, 1) \in Seq(ObjectType) /\ Len(Counted(o, 1)) = Len(object)
      /\ \A q \in Made \ {o} : Counted(o, 1)[q] = object[q]
      /\ Counted(o, 1)[o] = [object[o] EXCEPT !.refCount = object[o].refCount + 1]
      /\ Counted(o, 1)[o].refCount = object[o].refCount + 1
  <2>1. 1 \in Int
    OBVIOUS
  <2> QED
    BY <1>1, <2>1, CountedIs, Zenon
<1>3. object[o].refCount # 0
  BY HeldIsCounted
<1>4. \A q \in Made : object[q] = [object[q] EXCEPT !.refCount = object[q].refCount]
  BY <1>1, SameCounts DEF Recounted
<1>5. Counted(o, 1)[o] = [object[o] EXCEPT !.refCount = Counted(o, 1)[o].refCount]
  BY <1>2
<1> QED
  BY <1>2, <1>3, <1>4, <1>5 DEF Recounted

LEMMA RangeOfOne ==
  ASSUME NEW o \in Nat
  PROVE  <<o>> \in Seq(Nat) /\ Range(<<o>>) = {o} /\ <<o>> # <<>> /\ Range(<<>>) = {}
         /\ <<>> \in Seq(Nat) /\ \A i, j \in DOMAIN <<o>> : i = j
BY DEF Range

LEMMA RangeOfTwo ==
  ASSUME NEW o \in Nat, NEW p \in Nat, o # p
  PROVE  /\ <<o, p>> \in Seq(Nat) /\ Range(<<o, p>>) = {o, p} /\ <<o, p>> # <<>>
         /\ \A i, j \in DOMAIN <<o, p>> : <<o, p>>[i] = <<o, p>>[j] => i = j
BY DEF Range

\* What all the constructors do.
Registers ==
  \E kind, parents, objects :
    Makes(kind, parents) /\ Recounted(objects) /\ Register(objects, kind, parents)

LEMMA AllocateStep ==
  ASSUME Inv, NEW t \in Threads, NEW kind \in Allocations, Allocate(t, kind)
  PROVE  Inv' /\ Registers
<1>1. Types /\ Unmade
  BY DEF Inv
<1>2. /\ Room /\ kind \in mode.kinds /\ rmm.pc = "up" /\ Register(object, kind, <<>>)
      /\ references' = [references EXCEPT ![Fresh] = 1]
  BY DEF Allocate
<1>3. Range(<<>>) = {} /\ <<>> \in Seq(Nat)
  BY RangeOfOne
<1>4. references' \in [Objects -> Nat] /\ Fresh \in Objects /\ Fresh \notin Made
      /\ \A o \in Objects \ {Fresh} : references'[o] = references[o]
      /\ references'[Fresh] = 1
  <2>1. Fresh \in Objects /\ Fresh \notin Made
    <3>1. Made = 1 .. Len(object) /\ Len(object) \in Nat /\ MaxObjects \in Nat /\ mode.objects \in 0 .. MaxObjects
      BY <1>1, MadeIs, BoundsAssumption, ModesAssumption DEF Types
    <3> QED
      BY <1>2, <3>1 DEF Fresh, Objects, Room
  <2> QED
    BY <1>1, <1>2, <2>1 DEF Types
<1>5. Makes(kind, <<>>)
  BY <1>2, <1>3, <1>4 DEF Makes, Kinds, Allocations
<1>6. \A o \in Made : object[o].refCount \in Int /\ references[o] \in Nat /\ references'[o] = references[o]
  BY <1>1, <1>4, MadeIs DEF Types
<1>7. \A o \in Made :
        /\ object[o].refCount <= object[o].refCount + 1
        /\ object[o].refCount - references'[o] >=
             object[o].refCount - references[o] + (IF o \in Range(<<>>) THEN 1 ELSE 0)
  BY <1>3, <1>6
<1>8. Recounted(object)
  BY <1>1, SameCounts
<1>9. Inv'
  BY <1>2, <1>5, <1>7, <1>8, RegisterInv
<1>10. Registers
  BY <1>2, <1>5, <1>8, Zenon DEF Registers
<1> QED
  BY <1>9, <1>10

LEMMA FreshIs ==
  ASSUME Types, Room
  PROVE  Fresh \in Objects /\ Fresh \notin Made
<1>1. Made = 1 .. Len(object) /\ Len(object) \in Nat
  BY MadeIs
<1>2. MaxObjects \in Nat /\ mode.objects \in 0 .. MaxObjects
  BY BoundsAssumption, ModesAssumption DEF Types
<1> QED
  BY <1>1, <1>2 DEF Fresh, Objects, Room

\* A slice, or a column over a buffer that others share.
LEMMA OverStep ==
  ASSUME Inv, NEW o \in Made, references[o] > 0, NEW kind \in {"slice", "column"}, Room,
         Register(Counted(o, 1), kind, <<o>>), references' = [references EXCEPT ![Fresh] = 1]
  PROVE  Inv' /\ Registers
<1>1. Types
  BY DEF Inv
<1>2. Fresh \in Objects /\ Fresh \notin Made /\ Made \subseteq Objects /\ o \in Nat
  BY <1>1, FreshIs, MadeIs
<1>3. /\ <<o>> \in Seq(Nat) /\ Range(<<o>>) = {o} /\ <<o>> # <<>>
      /\ \A i, j \in DOMAIN <<o>> : i = j
  BY <1>2, RangeOfOne
<1>4. /\ references' \in [Objects -> Nat] /\ references'[Fresh] = 1
      /\ \A p \in Objects \ {Fresh} : references'[p] = references[p]
  BY <1>1, <1>2 DEF Types
<1>5. Makes(kind, <<o>>)
  <2>1. kind \notin Allocations /\ kind \in Kinds
    BY DEF Allocations, Kinds
  <2> QED
    BY <1>2, <1>3, <1>4, <2>1 DEF Makes
<1>6. Recounted(Counted(o, 1))
  BY RecountedByOne
<1>7. /\ \A q \in Made \ {o} : Counted(o, 1)[q] = object[q]
      /\ Counted(o, 1)[o].refCount = object[o].refCount + 1
  <2>1. 1 \in Int
    OBVIOUS
  <2> QED
    BY <1>1, <2>1, CountedIs, Zenon
<1>8. \A p \in Made : object[p].refCount \in Int /\ references[p] \in Nat /\ references'[p] = references[p]
  BY <1>1, <1>2, <1>4, MadeIs DEF Types
<1>9. \A p \in Made :
        /\ Counted(o, 1)[p].refCount <= object[p].refCount + 1
        /\ Counted(o, 1)[p].refCount - references'[p] >=
             object[p].refCount - references[p] + (IF p \in Range(<<o>>) THEN 1 ELSE 0)
  BY <1>3, <1>7, <1>8
<1>10. Inv'
  BY <1>5, <1>6, <1>9, RegisterInv
<1>11. Registers
  BY <1>5, <1>6, Zenon DEF Registers
<1> QED
  BY <1>10, <1>11

LEMMA SliceStep ==
  ASSUME Inv, NEW t \in Threads, NEW o \in Made, Slice(t, o)
  PROVE  Inv' /\ Registers
<1>1. /\ references[o] > 0 /\ Room /\ Register(Counted(o, 1), "slice", <<o>>)
      /\ references' = [references EXCEPT ![Fresh] = 1]
  BY DEF Slice, CanEnter, HasRef
<1> QED
  BY <1>1, OverStep

LEMMA ColumnOverStep ==
  ASSUME Inv, NEW t \in Threads, NEW o \in Made, ColumnOver(t, o)
  PROVE  Inv' /\ Registers
<1>1. /\ references[o] > 0 /\ Room /\ Register(Counted(o, 1), "column", <<o>>)
      /\ references' = [references EXCEPT ![Fresh] = 1]
  BY DEF ColumnOver, CanEnter, HasRef
<1> QED
  BY <1>1, OverStep

LEMMA ColumnOfStep ==
  ASSUME Inv, NEW t \in Threads, NEW data \in Made, NEW valid \in Made, ColumnOf(t, data, valid)
  PROVE  Inv' /\ Registers
<1>1. Types
  BY DEF Inv
<1>2. /\ Room /\ references[data] > 0 /\ references[valid] > 0 /\ data # valid
      /\ Register(object, "column", <<data, valid>>)
      /\ references' = [references EXCEPT ![data] = @ - 1, ![valid] = @ - 1, ![Fresh] = 1]
  BY DEF ColumnOf, HasRef
<1>3. /\ Fresh \in Objects /\ Fresh \notin Made /\ Made \subseteq Objects
      /\ data \in Nat /\ valid \in Nat
  BY <1>1, <1>2, FreshIs, MadeIs
<1>4. /\ <<data, valid>> \in Seq(Nat) /\ Range(<<data, valid>>) = {data, valid}
      /\ <<data, valid>> # <<>>
      /\ \A i, j \in DOMAIN <<data, valid>> : <<data, valid>>[i] = <<data, valid>>[j] => i = j
  BY <1>2, <1>3, RangeOfTwo
<1>5. \A p \in Objects : references[p] \in Nat
  BY <1>1 DEF Types
<1>6. /\ references' \in [Objects -> Nat] /\ references'[Fresh] = 1
      /\ references'[data] = references[data] - 1 /\ references'[valid] = references[valid] - 1
      /\ \A p \in Objects \ {Fresh, data, valid} : references'[p] = references[p]
  <2>1. PICK x : x = Fresh
    OBVIOUS
  <2>2. x \in Objects /\ x # data /\ x # valid /\ data \in Objects /\ valid \in Objects
    BY <1>3, <2>1
  <2>3. references' = [references EXCEPT ![data] = @ - 1, ![valid] = @ - 1, ![x] = 1]
    BY <1>2, <2>1
  <2>4. references \in [Objects -> Nat]
    BY <1>1 DEF Types
  <2>5. references[data] - 1 \in Nat /\ references[valid] - 1 \in Nat
    BY <1>2, <1>5, <2>2
  <2>6. /\ references'[x] = 1
        /\ references'[data] = references[data] - 1 /\ references'[valid] = references[valid] - 1
        /\ \A p \in Objects \ {x, data, valid} : references'[p] = references[p]
    BY <1>2, <2>2, <2>3, <2>4
  <2>7. references' \in [Objects -> Nat]
    <3>1. DOMAIN references' = Objects /\ references' = [p \in Objects |-> references'[p]]
      BY <2>3, <2>4
    <3>2. \A p \in Objects : references'[p] \in Nat
      BY <1>5, <2>5, <2>6
    <3> QED
      BY <3>1, <3>2
  <2> QED
    BY <2>1, <2>6, <2>7
<1>7. Makes("column", <<data, valid>>)
  <2>1. "column" \notin Allocations /\ "column" \in Kinds
    BY DEF Allocations, Kinds
  <2>2. \A p \in Objects \ {Fresh} : references'[p] > 0 => references[p] > 0
    BY <1>2, <1>5, <1>6
  <2> QED
    BY <1>2, <1>3, <1>4, <1>6, <2>1, <2>2 DEF Makes
<1>8. \A p \in Made : object[p].refCount \in Int /\ p \in Objects \ {Fresh}
  BY <1>1, <1>3, MadeIs
<1>9. \A p \in Made :
        /\ object[p].refCount <= object[p].refCount + 1
        /\ object[p].refCount - references'[p] >=
             object[p].refCount - references[p] + (IF p \in Range(<<data, valid>>) THEN 1 ELSE 0)
  BY <1>4, <1>5, <1>6, <1>8
<1>10. Recounted(object)
  BY <1>1, SameCounts
<1>11. Inv'
  BY <1>2, <1>7, <1>9, <1>10, RegisterInv
<1>12. Registers
  BY <1>2, <1>7, <1>10, Zenon DEF Registers
<1> QED
  BY <1>11, <1>12

(***************************************************************************)
(* Steps that leave the calls and the objects' owning alone.                  *)
(***************************************************************************)
LEMMA StayStep ==
  ASSUME Inv, Types', Grows, Bystander, Len(object') = Len(object), UNCHANGED <<memory, failed, all>>,
         \A o \in Made : references'[o] > 0 => references[o] > 0,
         \A o \in Objects \ Made : references'[o] = references[o]
  PROVE  Heap' /\ Unmade' /\ Calls' /\ Entered' /\ Spared' /\ Made' = Made
<1>1. Types /\ Heap /\ Unmade /\ Spared
  BY DEF Inv
<1>2. Made' = Made
  <2>1. DOMAIN object = 1 .. Len(object)
    <3>1. object \in Seq(ObjectType)
      BY <1>1 DEF Types
    <3> QED
      BY <3>1
  <2>2. DOMAIN object' = 1 .. Len(object')
    <3>1. object' \in Seq(ObjectType)
      BY DEF Types
    <3> QED
      BY <3>1
  <2> QED
    BY <2>1, <2>2 DEF Made
<1>3. \A o \in Made :
        /\ object'[o].kind = object[o].kind /\ object'[o].parents = object[o].parents
        /\ object'[o].native = object[o].native /\ object'[o].owning = object[o].owning
  BY DEF Grows, Bystander
<1>4. \A o \in Made : WellMade(o)'
  BY <1>1, MadeKept DEF Heap
<1>5. \A o \in Made : Accounted(o)'
  BY <1>1, <1>3 DEF Heap, Accounted
<1>6. Heap'
  BY <1>2, <1>4, <1>5 DEF Heap
<1>7. Unmade'
  BY <1>1, <1>2 DEF Unmade
<1>8. Spared'
  <2> SUFFICES ASSUME exit'.pc = "up", NEW o \in Made, Alive(o)' PROVE Untouched(o)'
    BY <1>2 DEF Spared
  <2>1. exit.pc = "up"
    BY DEF Grows
  <2>2. (\A c \in Made : Owns(c, o)' <=> Owns(c, o)) /\ (Working(o)' <=> Working(o))
    BY ViewsKept
  <2>3. Alive(o)
    BY <1>2, <2>2 DEF Alive
  <2>4. Untouched(o)
    BY <1>1, <2>1, <2>3 DEF Spared
  <2> QED
    BY <1>3, <2>2, <2>4 DEF Untouched
<1> QED
  BY <1>2, <1>6, <1>7, <1>8, CallsKept

\* References and counts change together.
LEMMA StayCounts ==
  ASSUME Inv, Types', Grows, Bystander, Len(object') = Len(object), Made' = Made,
         \A o \in Made :
           /\ object'[o].refCount <= MaxRefs + Len(object)
           /\ object'[o].refCount - references'[o] >= object[o].refCount - references[o]
  PROVE  Counting'
<1>1. Types /\ Counting
  BY DEF Inv
<1>2. ASSUME NEW o \in Made PROVE Counts(o)'
  <2>1. Enterers(o)' = Enterers(o) /\ \A c \in Made : Owns(c, o)' <=> Owns(c, o)
    BY ViewsKept
  <2>2. Owners(o)' = Owners(o)
    BY <2>1 DEF Owners
  <2>3. /\ object[o].refCount >= references[o] + Cardinality(Owners(o)) + Cardinality(Enterers(o))
        /\ object'[o].refCount <= MaxRefs + Len(object')
    BY <1>1 DEF Counting, Counts
  <2>4. Cardinality(Owners(o)) \in Nat /\ Cardinality(Enterers(o)) \in Nat
    BY <1>1, CountsAreNumbers
  <2>5. object[o].refCount \in Int /\ references[o] \in Nat
    BY HeldIsCounted
  <2>6. object'[o].refCount \in Int /\ references'[o] \in Nat
    <3>1. object' \in Seq(ObjectType) /\ references' \in [Objects -> Nat] /\ o \in Objects
      BY <1>1, MadeIs DEF Types
    <3>2. o \in 1 .. Len(object')
      BY <1>1, MadeIs
    <3>3. object'[o] \in ObjectType
      BY <3>1, <3>2
    <3> QED
      BY <3>1, <3>3 DEF ObjectType
  <2>7. PICK r \in Int, s \in Int, p \in Nat, q \in Nat, w \in Nat, e \in Nat :
          /\ r = object[o].refCount /\ s = object'[o].refCount
          /\ p = references[o] /\ q = references'[o]
          /\ w = Cardinality(Owners(o)) /\ e = Cardinality(Enterers(o))
    BY <2>4, <2>5, <2>6
  <2>8. s - q >= r - p /\ r >= p + w + e
    BY <2>3, <2>7
  <2>9. s >= q + w + e
    BY <2>8
  <2> QED
    BY <2>1, <2>2, <2>3, <2>7, <2>9 DEF Counts
<1> QED
  BY <1>2 DEF Counting

LEMMA IncRefCountStep ==
  ASSUME Inv, NEW t \in Threads, NEW o \in Made, IncRefCount(t, o)
  PROVE  Inv'
<1>1. Types /\ Counting /\ Unreferenced /\ Exiting /\ Looked
  BY DEF Inv
<1>2. /\ references[o] > 0 /\ object[o].refCount < MaxRefs /\ object' = Counted(o, 1)
      /\ references' = [references EXCEPT ![o] = @ + 1]
      /\ UNCHANGED <<mode, memory, failed, callVars, gcVars, exit, rmm>>
  BY DEF IncRefCount, CanEnter, HasRef
<1>3. o \in Objects /\ Made \subseteq Objects /\ MaxRefs \in Nat /\ Len(object) \in Nat
  BY <1>1, MadeIs, BoundsAssumption
<1>4. /\ references' \in [Objects -> Nat] /\ references'[o] = references[o] + 1
      /\ \A p \in Objects \ {o} : references'[p] = references[p]
  BY <1>1, <1>2, <1>3 DEF Types
<1>5. /\ object' \in Seq(ObjectType) /\ Len(object') = Len(object)
      /\ \A q \in Made \ {o} : object'[q] = object[q]
      /\ object'[o] = [object[o] EXCEPT !.refCount = object[o].refCount + 1]
      /\ object'[o].refCount = object[o].refCount + 1
  <2>1. 1 \in Int
    OBVIOUS
  <2> QED
    BY <1>1, <1>2, <2>1, CountedIs, Zenon
<1>6. Made' = Made
  BY <1>1, <1>5, MadeIs DEF Made
<1>7. Types'
  BY <1>1, <1>2, <1>4, <1>5, <1>6 DEF Types, callVars, gcVars
<1>8. \A q \in Made :
        /\ object'[q].kind = object[q].kind /\ object'[q].parents = object[q].parents
        /\ object'[q].backing = object[q].backing
        /\ object'[q].native = object[q].native /\ object'[q].owning = object[q].owning
  <2>1. \A q \in Made : object[q] \in ObjectType
    BY <1>1, MadeIs
  <2> QED
    BY <1>5, <2>1 DEF ObjectType
<1>9. Grows
  BY <1>2, <1>3, <1>5, <1>8 DEF Grows, gcVars
<1>10. object[o].refCount # 0 /\ \A q \in Made : object[q].refCount \in Int /\ references[q] \in Nat
  BY <1>2, HeldIsCounted
<1>11. Bystander
  BY <1>2, <1>5, <1>8, <1>10 DEF Bystander, callVars, gcVars
<1>12. \A p \in Made : references'[p] > 0 => references[p] > 0
  BY <1>2, <1>3, <1>4
<1>13. Heap' /\ Unmade' /\ Calls' /\ Entered' /\ Spared'
  BY <1>2, <1>3, <1>4, <1>5, <1>7, <1>9, <1>11, <1>12, StayStep DEF gcVars
<1>14. Counting'
  <2>1. \A q \in Made :
          /\ object'[q].refCount <= MaxRefs + Len(object)
          /\ object'[q].refCount - references'[q] >= object[q].refCount - references[q]
    <3>1. \A q \in Made : object[q].refCount <= MaxRefs + Len(object)
      BY <1>1 DEF Counting, Counts
    <3> QED
      BY <1>2, <1>3, <1>4, <1>5, <1>10, <3>1
  <2> QED
    BY <1>5, <1>6, <1>7, <1>9, <1>11, <2>1, StayCounts
<1>15. Unreferenced'
  <2>1. gone' = gone /\ o \notin gone /\ gone \subseteq Made
    BY <1>1, <1>2 DEF Unreferenced, gcVars, Types
  <2> QED
    BY <1>1, <1>3, <1>4, <1>6, <1>8, <2>1 DEF Unreferenced, Parents
<1>16. Exiting' /\ Looked'
  BY <1>1, <1>2, <1>6, <1>8 DEF Exiting, Looked
<1> QED
  BY <1>7, <1>13, <1>14, <1>15, <1>16 DEF Inv

LEMMA IdleStep ==
  ASSUME Inv, UNCHANGED <<mode, heapVars, callVars, all>>,
         references' \in [Objects -> Nat], \A o \in Objects : references'[o] <= references[o],
         gone \subseteq gone', gone' \subseteq Made, collected' \subseteq gone',
         \A o \in gone' \ gone : ~InUse(o),
         exit' \in [pc : {"up", "both", "alone"}, todo : SUBSET Made],
         exit.pc # "up" => exit'.pc # "up",
         rmm' \in [pc : {"up", "looking", "refused", "down"}, todo : SUBSET Made]
  PROVE  Types' /\ Heap' /\ Unmade' /\ Calls' /\ Entered' /\ Counting' /\ Spared' /\ Made' = Made
<1>1. Types /\ Counting /\ Unmade
  BY DEF Inv
<1>2. UNCHANGED <<mode, object, memory, failed, stack, monitor, cleanerMonitor, all>> /\ Made' = Made
  BY DEF heapVars, callVars, Made
<1>3. Types'
  BY <1>1, <1>2 DEF Types
<1>4. Made \subseteq Objects /\ Len(object) \in Nat
  BY <1>1, MadeIs
<1>5. Grows
  BY <1>2, <1>4 DEF Grows
<1>6. Bystander
  BY <1>2 DEF Bystander
<1>7. \A o \in Objects : references[o] \in Nat /\ references'[o] \in Nat
  BY <1>1, <1>3 DEF Types
<1>8. \A o \in Made : references'[o] > 0 => references[o] > 0
  BY <1>4, <1>7
<1>9. \A o \in Objects \ Made : references'[o] = references[o]
  <2> TAKE o \in Objects \ Made
  <2>1. references[o] = 0 /\ references'[o] <= references[o] /\ references'[o] \in Nat
    BY <1>1, <1>7 DEF Unmade
  <2> QED
    BY <2>1
<1>10. Heap' /\ Unmade' /\ Calls' /\ Entered' /\ Spared'
  BY <1>2, <1>3, <1>5, <1>6, <1>8, <1>9, StayStep
<1>11. \A o \in Made :
         /\ object'[o].refCount <= MaxRefs + Len(object)
         /\ object'[o].refCount - references'[o] >= object[o].refCount - references[o]
  <2> TAKE o \in Made
  <2>1. /\ object'[o].refCount = object[o].refCount /\ object[o].refCount \in Int
        /\ references'[o] <= references[o] /\ references[o] \in Nat /\ references'[o] \in Nat
        /\ object[o].refCount <= MaxRefs + Len(object)
    BY <1>1, <1>2, <1>4, <1>7, MadeIs DEF Counting, Counts
  <2> QED
    BY <2>1
<1>12. Counting'
  BY <1>2, <1>3, <1>5, <1>6, <1>11, StayCounts
<1> QED
  BY <1>2, <1>3, <1>10, <1>12

LEMMA ReferencesTyped ==
  ASSUME Types
  PROVE  references \in [Objects -> Nat] /\ \A o \in Objects : references[o] <= references[o]
<1>1. references \in [Objects -> Nat]
  BY DEF Types
<1> QED
  BY <1>1

LEMMA ForgetStep ==
  ASSUME Inv, NEW t \in Threads, NEW o \in Made, Forget(t, o)
  PROVE  Inv'
<1>1. Types /\ Unreferenced /\ Exiting /\ Looked
  BY DEF Inv
<1>2. /\ references[o] > 0 /\ references' = [references EXCEPT ![o] = @ - 1]
      /\ UNCHANGED <<mode, heapVars, callVars, gcVars, exit, rmm>>
  BY DEF Forget, HasRef
<1>3. /\ references' \in [Objects -> Nat] /\ \A p \in Objects : references'[p] <= references[p]
      /\ o \in Objects
  <2>1. o \in Objects /\ references \in [Objects -> Nat]
    BY <1>1, MadeIs DEF Types
  <2> QED
    BY <1>2, <2>1
<1>4. Types' /\ Heap' /\ Unmade' /\ Calls' /\ Entered' /\ Counting' /\ Spared' /\ Made' = Made
  BY <1>1, <1>2, <1>3, IdleStep DEF Types, gcVars
<1>5. Unreferenced'
  <2>1. gone' = gone /\ o \notin gone /\ object' = object /\ gone \subseteq Made /\ references \in [Objects -> Nat]
    BY <1>1, <1>2 DEF Unreferenced, gcVars, heapVars, Types
  <2>2. Made \subseteq Objects
    BY <1>1, MadeIs
  <2>3. \A p \in gone : references'[p] = 0
    BY <1>1, <1>2, <1>3, <2>1, <2>2 DEF Unreferenced
  <2> QED
    BY <1>1, <1>4, <2>1, <2>3 DEF Unreferenced, Parents
<1>6. Exiting' /\ Looked'
  BY <1>1, <1>2, <1>4 DEF Exiting, Looked, heapVars
<1> QED
  BY <1>4, <1>5, <1>6 DEF Inv

LEMMA CollectStep ==
  ASSUME Inv, NEW o \in Objects, Collect(o)
  PROVE  Inv'
<1>1. Types /\ Heap /\ Unreferenced /\ Exiting /\ Looked
  BY DEF Inv
<1>2. /\ o \in Made /\ ~Reachable(o) /\ gone' = gone \cup {o} /\ collected' = collected \cup ({o} \cap all)
      /\ UNCHANGED <<mode, heapVars, references, callVars, all, exit, rmm>>
  BY DEF Collect
<1>3. ~InUse(o) /\ ~(references[o] > 0) /\ \A p \in all : object[p].owning => o \notin Range(object[p].parents)
  BY <1>2 DEF Reachable
<1>4. references \in [Objects -> Nat] /\ \A p \in Objects : references[p] <= references[p]
  BY <1>1, ReferencesTyped
<1>5. gone \subseteq Made /\ collected \subseteq gone
  BY <1>1 DEF Types
<1>6. /\ exit \in [pc : {"up", "both", "alone"}, todo : SUBSET Made]
      /\ rmm \in [pc : {"up", "looking", "refused", "down"}, todo : SUBSET Made]
  BY <1>1 DEF Types
<1>7. Types' /\ Heap' /\ Unmade' /\ Calls' /\ Entered' /\ Counting' /\ Spared' /\ Made' = Made
  BY <1>2, <1>3, <1>4, <1>5, <1>6, IdleStep
<1>8. Unreferenced'
  <2>1. object' = object /\ references' = references
    BY <1>2 DEF heapVars
  <2>2. references[o] = 0
    BY <1>2, <1>3, <1>4
  <2>3. \A c \in Made : object[c].owning => c \in all
    BY <1>1 DEF Heap, Accounted
  <2> QED
    BY <1>1, <1>2, <1>3, <1>7, <2>1, <2>2, <2>3 DEF Unreferenced, Parents
<1>9. Exiting' /\ Looked'
  BY <1>1, <1>2, <1>7 DEF Exiting, Looked, heapVars
<1> QED
  BY <1>7, <1>8, <1>9 DEF Inv

LEMMA ExitStep ==
  ASSUME Inv, Exit
  PROVE  Inv'
<1>1. Types /\ Unreferenced /\ Exiting /\ Looked
  BY DEF Inv
<1>2. /\ mode.debug /\ exit.pc = "up" /\ \E pc \in {"both", "alone"} : exit' = [pc |-> pc, todo |-> all]
      /\ UNCHANGED <<mode, heapVars, references, callVars, gcVars, rmm>>
  BY DEF Exit
<1>3. references \in [Objects -> Nat] /\ \A p \in Objects : references[p] <= references[p]
  BY <1>1, ReferencesTyped
<1>4. all \subseteq Made /\ gone \subseteq Made /\ collected \subseteq gone
  BY <1>1 DEF Types
<1>5. exit' \in [pc : {"up", "both", "alone"}, todo : SUBSET Made] /\ exit'.pc # "up"
  BY <1>2, <1>4
<1>6. rmm \in [pc : {"up", "looking", "refused", "down"}, todo : SUBSET Made]
  BY <1>1 DEF Types
<1>7. Types' /\ Heap' /\ Unmade' /\ Calls' /\ Entered' /\ Counting' /\ Spared' /\ Made' = Made
  BY <1>2, <1>3, <1>4, <1>5, <1>6, IdleStep DEF gcVars
<1>8. Unreferenced' /\ Looked'
  BY <1>1, <1>2, <1>7 DEF Unreferenced, Parents, Looked, heapVars, gcVars
<1>9. Exiting'
  BY <1>2, <1>5 DEF Exiting
<1> QED
  BY <1>7, <1>8, <1>9 DEF Inv

LEMMA ShutdownStep ==
  ASSUME Inv, NEW o, Shutdown \/ LookAt(o) \/ TearDown
  PROVE  Inv'
<1>1. Types /\ Heap /\ Unreferenced /\ Exiting /\ Looked
  BY DEF Inv
<1>2. UNCHANGED <<mode, heapVars, references, callVars, gcVars, exit>>
  BY DEF Shutdown, LookAt, TearDown
<1>3. references \in [Objects -> Nat] /\ \A p \in Objects : references[p] <= references[p]
  BY <1>1, ReferencesTyped
<1>4. all \subseteq Made /\ gone \subseteq Made /\ collected \subseteq gone
  BY <1>1 DEF Types
<1>5. rmm \in [pc : {"up", "looking", "refused", "down"}, todo : SUBSET Made]
  BY <1>1 DEF Types
<1>6. rmm' \in [pc : {"up", "looking", "refused", "down"}, todo : SUBSET Made]
  BY <1>4, <1>5 DEF Shutdown, LookAt, TearDown
<1>7. exit \in [pc : {"up", "both", "alone"}, todo : SUBSET Made]
  BY <1>1 DEF Types
<1>8. Types' /\ Heap' /\ Unmade' /\ Calls' /\ Entered' /\ Counting' /\ Spared' /\ Made' = Made
  BY <1>2, <1>3, <1>4, <1>6, <1>7, IdleStep DEF gcVars
<1>9. Unreferenced' /\ Exiting'
  BY <1>1, <1>2, <1>8 DEF Unreferenced, Parents, Exiting, heapVars, gcVars
<1>10. ASSUME NEW m \in Made, object[m].kind \in {"device", "rmm"}, memory[m] = "live", m \notin failed
       PROVE  m \in all /\ object[m].native /\ IsBlocker(m)
  <2>1. WellMade(m) /\ Accounted(m)
    BY <1>1 DEF Heap
  <2>2. object[m].native /\ m \in all
    BY <1>10, <2>1 DEF Accounted
  <2>3. m \in object[m].backing
    BY <1>10, <2>1 DEF WellMade
  <2> QED
    BY <1>10, <2>2, <2>3 DEF IsBlocker
<1>11. Looked'
  <2>1. UNCHANGED <<object, memory, failed>>
    BY <1>2 DEF heapVars
  <2> SUFFICES ASSUME rmm'.pc \in {"looking", "down"}, NEW m \in Made,
                      object[m].kind \in {"device", "rmm"}, memory[m] = "live", m \notin failed
               PROVE  rmm'.pc = "looking" /\ m \in rmm'.todo
    BY <1>8, <2>1 DEF Looked
  <2>2. m \in all /\ object[m].native /\ IsBlocker(m)
    BY <1>10
  <2>3. CASE Shutdown
    BY <2>2, <2>3 DEF Shutdown
  <2>4. CASE LookAt(o)
    <3>1. rmm.pc = "looking" /\ m \in rmm.todo
      BY <1>1, <2>4 DEF LookAt, Looked
    <3>2. ~IsClean(m)
      BY <2>2 DEF IsClean
    <3>3. rmm' = IF IsBlocker(o) /\ ~IsClean(o) /\ o \in all THEN [pc |-> "refused", todo |-> {}]
                 ELSE [rmm EXCEPT !.todo = @ \ {o}]
      BY <2>4 DEF LookAt
    <3>4. rmm' = [rmm EXCEPT !.todo = @ \ {o}] /\ o # m
      BY <2>2, <3>2, <3>3
    <3> QED
      BY <1>5, <3>1, <3>4
  <2>5. CASE TearDown
    BY <1>1, <2>5 DEF TearDown, Looked
  <2> QED
    BY <2>3, <2>4, <2>5
<1> QED
  BY <1>8, <1>9, <1>11 DEF Inv

(***************************************************************************)
(* The calls of a thread, of which only the innermost changes.                 *)
(***************************************************************************)
\* What a step of another call must leave to the call at depth k of thread u.
Undisturbed(u, k) ==
  LET f == stack[u][k]
      o == f.obj
  IN  /\ f.op = "close" => o \notin gone'
      /\ f.op = "close" /\ f.pc # "enter" => monitor'[o] = u
      /\ f.op = "close" /\ f.pc \notin {"enter", "leave"} => object'[o].refCount = 0
      /\ f.pc \in {"free", "parents"} /\ object[o].kind # "mmap" => cleanerMonitor'[o] = u
      /\ f.pc = "free" /\ (object[o].kind # "mmap" \/ ~mode.debug) => object'[o].native
      /\ f.pc = "parents" => object'[o].owning

Others(t) == \A u \in Threads : \A k \in DOMAIN stack[u] : u # t \/ k # 1 => Undisturbed(u, k)

LEMMA OtherFrame ==
  ASSUME Inv, Types', Grows, NEW u \in Threads, NEW k \in DOMAIN stack[u], Undisturbed(u, k),
         NEW l, stack'[u][l] = stack[u][k]
  PROVE  FrameOK(u, l)'
<1>1. Types /\ FrameOK(u, k)
  BY DEF Inv, Calls
<1>2. /\ stack[u][k].op = "close" => stack[u][k].obj \notin gone'
      /\ stack[u][k].op = "close" /\ stack[u][k].pc # "enter" => monitor'[stack[u][k].obj] = u
      /\ stack[u][k].op = "close" /\ stack[u][k].pc \notin {"enter", "leave"} =>
           object'[stack[u][k].obj].refCount = 0
      /\ stack[u][k].pc \in {"free", "parents"} /\ object[stack[u][k].obj].kind # "mmap" =>
           cleanerMonitor'[stack[u][k].obj] = u
      /\ stack[u][k].pc = "free" /\ (object[stack[u][k].obj].kind # "mmap" \/ ~mode.debug) =>
           object'[stack[u][k].obj].native
      /\ stack[u][k].pc = "parents" => object'[stack[u][k].obj].owning
  BY DEF Undisturbed
<1> QED
  BY <1>1, <1>2, FrameStable

GoesOn(f, g) == g.obj = f.obj /\ g.op = f.op /\ g.pc = f.pc /\ (f.threw => g.threw)

\* A call that waits for another learns that this one threw.
LEMMA WaitingFrame ==
  ASSUME Inv, Types', Grows, NEW u \in Threads, NEW k \in DOMAIN stack[u], Undisturbed(u, k),
         stack[u][k].pc = "parents", NEW l, GoesOn(stack[u][k], stack'[u][l]),
         stack'[u][l].next \in 1 .. Len(object[stack[u][k].obj].parents) + 1
  PROVE  FrameOK(u, l)'
<1> PICK f : f = stack[u][k]
  OBVIOUS
<1> PICK g : g = stack'[u][l]
  OBVIOUS
<1>1. Types /\ FrameOK(u, k) /\ f \in FrameType
  BY FrameTyped DEF Inv, Calls
<1>2. g.obj = f.obj /\ g.op = f.op /\ g.pc = f.pc /\ (f.threw => g.threw)
  BY DEF GoesOn
<1>3. stack'[u][l] = g
  OBVIOUS
<1>4. Made \subseteq Made' /\ f.obj \in Made
  BY <1>1, MadeGrows DEF FrameOK
<1>5. /\ mode' = mode /\ failed \subseteq failed' /\ gone \subseteq gone'
      /\ exit.pc # "up" => exit'.pc # "up"
      /\ object'[f.obj].kind = object[f.obj].kind /\ object'[f.obj].parents = object[f.obj].parents
      /\ object'[f.obj].native => object[f.obj].native
  BY <1>4 DEF Grows
<1>6. /\ f.op = "close" => f.obj \notin gone' /\ monitor'[f.obj] = u /\ object'[f.obj].refCount = 0
      /\ object[f.obj].kind # "mmap" => cleanerMonitor'[f.obj] = u
      /\ object'[f.obj].owning
  BY DEF Undisturbed
<1> QED
  BY <1>1, <1>2, <1>3, <1>4, <1>5, <1>6 DEF FrameOK

\* How the innermost call changes: g takes the place of it, g goes on under a new call h, the
\* thread begins a call h, or the call ends and the one below becomes g.
Changes(t, g) ==
  /\ stack[t] # <<>> /\ stack' = [stack EXCEPT ![t] = <<g>> \o Tail(stack[t])]
  /\ g \in FrameType /\ g.obj = stack[t][1].obj /\ g.op = stack[t][1].op
Begins(t, h) == stack[t] = <<>> /\ stack' = [stack EXCEPT ![t] = <<h>>] /\ h \in FrameType
Nests(t, h, g) ==
  /\ stack[t] # <<>> /\ stack' = [stack EXCEPT ![t] = <<h, g>> \o Tail(stack[t])]
  /\ h \in FrameType /\ g \in FrameType /\ g.obj = stack[t][1].obj /\ g.op = stack[t][1].op
  /\ g.op = "close" \/ Len(stack[t]) = 1
  /\ g.pc = "parents" /\ h.obj < g.obj /\ h.op = "close"
Ends(t, b) ==
  /\ stack[t] # <<>> /\ b \in BOOLEAN
  /\ stack' = [stack EXCEPT ![t] =
       IF Len(stack[t]) > 1 THEN <<[stack[t][2] EXCEPT !.threw = b]>> \o Tail(Tail(stack[t])) ELSE <<>>]

LEMMA ChangesFrames ==
  ASSUME Inv, NEW t \in Threads, NEW g, Changes(t, g)
  PROVE  /\ stack' \in [Threads -> Seq(FrameType)]
         /\ \A u \in Threads \ {t} : stack'[u] = stack[u]
         /\ DOMAIN stack'[t] = DOMAIN stack[t] /\ 1 \in DOMAIN stack[t] /\ stack'[t][1] = g
         /\ \A k \in DOMAIN stack[t] \ {1} : stack'[t][k] = stack[t][k]
<1>1. stack \in [Threads -> Seq(FrameType)]
  BY DEF Inv, Types
<1>2. stack[t] \in Seq(FrameType) /\ stack[t] # <<>> /\ g \in FrameType
  BY <1>1 DEF Changes
<1>3. PICK r : r = <<g>> \o Tail(stack[t])
  OBVIOUS
<1>4. /\ r \in Seq(FrameType) /\ DOMAIN r = DOMAIN stack[t] /\ 1 \in DOMAIN stack[t] /\ r[1] = g
      /\ \A k \in DOMAIN stack[t] \ {1} : r[k] = stack[t][k]
  BY <1>2, <1>3, Replaced
<1>5. stack' = [stack EXCEPT ![t] = r]
  BY <1>3 DEF Changes
<1>6. stack'[t] = r /\ stack' \in [Threads -> Seq(FrameType)] /\ \A u \in Threads \ {t} : stack'[u] = stack[u]
  BY <1>1, <1>4, <1>5
<1> QED
  BY <1>4, <1>6

LEMMA BeginsFrames ==
  ASSUME Inv, NEW t \in Threads, NEW h, Begins(t, h)
  PROVE  /\ stack' \in [Threads -> Seq(FrameType)]
         /\ \A u \in Threads \ {t} : stack'[u] = stack[u]
         /\ DOMAIN stack[t] = {} /\ DOMAIN stack'[t] = {1} /\ stack'[t][1] = h
<1>1. stack \in [Threads -> Seq(FrameType)]
  BY DEF Inv, Types
<1>2. stack' = [stack EXCEPT ![t] = <<h>>] /\ <<h>> \in Seq(FrameType)
  BY DEF Begins
<1>3. stack'[t] = <<h>> /\ stack' \in [Threads -> Seq(FrameType)] /\ \A u \in Threads \ {t} : stack'[u] = stack[u]
  BY <1>1, <1>2
<1>4. DOMAIN <<h>> = {1} /\ <<h>>[1] = h /\ DOMAIN <<>> = {}
  OBVIOUS
<1> QED
  BY <1>3, <1>4 DEF Begins

LEMMA NestsFrames ==
  ASSUME Inv, NEW t \in Threads, NEW h, NEW g, Nests(t, h, g)
  PROVE  /\ stack' \in [Threads -> Seq(FrameType)]
         /\ \A u \in Threads \ {t} : stack'[u] = stack[u]
         /\ Len(stack[t]) \in Nat \ {0} /\ DOMAIN stack[t] = 1 .. Len(stack[t])
         /\ DOMAIN stack'[t] = 1 .. Len(stack[t]) + 1 /\ stack'[t][1] = h /\ stack'[t][2] = g
         /\ \A k \in 2 .. Len(stack[t]) : stack'[t][k + 1] = stack[t][k]
<1>1. stack \in [Threads -> Seq(FrameType)]
  BY DEF Inv, Types
<1>2. stack[t] \in Seq(FrameType) /\ stack[t] # <<>> /\ g \in FrameType /\ h \in FrameType
  BY <1>1 DEF Nests
<1>3. PICK r : r = <<h, g>> \o Tail(stack[t])
  OBVIOUS
<1>4. /\ r \in Seq(FrameType) /\ Len(r) = Len(stack[t]) + 1 /\ r[1] = h /\ r[2] = g
      /\ \A k \in 2 .. Len(stack[t]) : r[k + 1] = stack[t][k]
  BY <1>2, <1>3, PushedOver
<1>5. stack' = [stack EXCEPT ![t] = r]
  BY <1>3 DEF Nests
<1>6. stack'[t] = r /\ stack' \in [Threads -> Seq(FrameType)] /\ \A u \in Threads \ {t} : stack'[u] = stack[u]
  BY <1>1, <1>4, <1>5
<1>7. DOMAIN r = 1 .. Len(r) /\ DOMAIN stack[t] = 1 .. Len(stack[t]) /\ Len(stack[t]) \in Nat \ {0}
  BY <1>2, <1>4
<1> QED
  BY <1>4, <1>6, <1>7

LEMMA EndsFrames ==
  ASSUME Inv, NEW t \in Threads, NEW b, Ends(t, b)
  PROVE  /\ stack' \in [Threads -> Seq(FrameType)]
         /\ \A u \in Threads \ {t} : stack'[u] = stack[u]
         /\ Len(stack[t]) \in Nat \ {0} /\ DOMAIN stack[t] = 1 .. Len(stack[t])
         /\ DOMAIN stack'[t] = 1 .. Len(stack[t]) - 1
         /\ Len(stack[t]) > 1 => stack'[t][1] = [stack[t][2] EXCEPT !.threw = b]
         /\ \A k \in 2 .. Len(stack[t]) - 1 : stack'[t][k] = stack[t][k + 1]
<1>1. stack \in [Threads -> Seq(FrameType)] /\ Types
  BY DEF Inv, Types
<1>2. stack[t] \in Seq(FrameType) /\ stack[t] # <<>> /\ b \in BOOLEAN
  BY <1>1 DEF Ends
<1>3. DOMAIN stack[t] = 1 .. Len(stack[t]) /\ Len(stack[t]) \in Nat \ {0}
  BY <1>2
<1>4. CASE ~(Len(stack[t]) > 1)
  <2>1. stack' = [stack EXCEPT ![t] = <<>>] /\ <<>> \in Seq(FrameType) /\ DOMAIN <<>> = {}
    <3>1. stack' = [stack EXCEPT ![t] =
            IF Len(stack[t]) > 1 THEN <<[stack[t][2] EXCEPT !.threw = b]>> \o Tail(Tail(stack[t])) ELSE <<>>]
      BY Zenon DEF Ends
    <3>2. stack' = [stack EXCEPT ![t] = <<>>]
      BY <1>4, <3>1, Zenon
    <3> QED
      BY <3>2
  <2>2. stack'[t] = <<>> /\ stack' \in [Threads -> Seq(FrameType)] /\ \A u \in Threads \ {t} : stack'[u] = stack[u]
    BY <1>1, <2>1
  <2>3. 1 .. Len(stack[t]) - 1 = {} /\ 2 .. Len(stack[t]) - 1 = {}
    BY <1>4
  <2> QED
    BY <1>3, <1>4, <2>1, <2>2, <2>3
<1>5. CASE Len(stack[t]) > 1
  <2>1. PICK g : g = [stack[t][2] EXCEPT !.threw = b]
    OBVIOUS
  <2>2. g \in FrameType
    <3>1. stack[t][2] \in FrameType
      BY <1>2, <1>5
    <3> QED
      BY <1>2, <2>1, <3>1 DEF FrameType
  <2>3. PICK r : r = <<g>> \o Tail(Tail(stack[t]))
    OBVIOUS
  <2>4. /\ r \in Seq(FrameType) /\ Len(r) = Len(stack[t]) - 1 /\ r[1] = g
        /\ \A k \in 2 .. Len(stack[t]) - 1 : r[k] = stack[t][k + 1]
    BY <1>2, <1>5, <2>2, <2>3, Popped
  <2>5. stack' = [stack EXCEPT ![t] = r]
    <3>1. stack' = [stack EXCEPT ![t] =
            IF Len(stack[t]) > 1 THEN <<[stack[t][2] EXCEPT !.threw = b]>> \o Tail(Tail(stack[t])) ELSE <<>>]
      BY Zenon DEF Ends
    <3>2. (IF Len(stack[t]) > 1 THEN <<[stack[t][2] EXCEPT !.threw = b]>> \o Tail(Tail(stack[t])) ELSE <<>>) = r
      BY <1>5, <2>1, <2>3, Zenon
    <3> QED
      BY <3>1, <3>2, Zenon
  <2>6. stack'[t] = r /\ stack' \in [Threads -> Seq(FrameType)] /\ \A u \in Threads \ {t} : stack'[u] = stack[u]
    BY <1>1, <2>4, <2>5
  <2>7. DOMAIN r = 1 .. Len(r)
    BY <2>4
  <2> QED
    BY <1>3, <1>5, <2>1, <2>4, <2>6, <2>7
<1> QED
  BY <1>4, <1>5

(***************************************************************************)
(* What other objects see of the calls: who is where in the clean of which.    *)
(***************************************************************************)
CallBy(u, o, pc, n) ==
  \E k \in DOMAIN stack[u] : stack[u][k].obj = o /\ stack[u][k].pc = pc /\ stack[u][k].next = n
Waits(t, o, pc, n) ==
  \E k \in DOMAIN stack[t] \ {1} : stack[t][k].obj = o /\ stack[t][k].pc = pc /\ stack[t][k].next = n

\* Thread t goes on in the calls `new', above those that wait.
Becomes(t, new) ==
  /\ \A u \in Threads \ {t} : \A o, pc, n : CallBy(u, o, pc, n)' <=> CallBy(u, o, pc, n)
  /\ \A o, pc, n :
       CallBy(t, o, pc, n)' <=>
         Waits(t, o, pc, n) \/ \E f \in new : f.obj = o /\ f.pc = pc /\ f.next = n

LEMMA ChangesBecomes ==
  ASSUME Inv, NEW t \in Threads, NEW g, Changes(t, g)
  PROVE  Becomes(t, {g})
<1>1. /\ \A u \in Threads \ {t} : stack'[u] = stack[u]
      /\ DOMAIN stack'[t] = DOMAIN stack[t] /\ 1 \in DOMAIN stack[t] /\ stack'[t][1] = g
      /\ \A k \in DOMAIN stack[t] \ {1} : stack'[t][k] = stack[t][k]
  BY ChangesFrames
<1>2. \A u \in Threads \ {t} : \A o, pc, n : CallBy(u, o, pc, n)' <=> CallBy(u, o, pc, n)
  BY <1>1 DEF CallBy
<1>3. ASSUME NEW o, NEW pc, NEW n
      PROVE  CallBy(t, o, pc, n)' <=>
               Waits(t, o, pc, n) \/ \E f \in {g} : f.obj = o /\ f.pc = pc /\ f.next = n
  BY <1>1 DEF CallBy, Waits
<1> QED
  BY <1>2, <1>3 DEF Becomes

LEMMA BeginsBecomes ==
  ASSUME Inv, NEW t \in Threads, NEW h, Begins(t, h)
  PROVE  Becomes(t, {h})
<1>1. /\ \A u \in Threads \ {t} : stack'[u] = stack[u]
      /\ DOMAIN stack[t] = {} /\ DOMAIN stack'[t] = {1} /\ stack'[t][1] = h
  BY BeginsFrames
<1>2. \A u \in Threads \ {t} : \A o, pc, n : CallBy(u, o, pc, n)' <=> CallBy(u, o, pc, n)
  BY <1>1 DEF CallBy
<1>3. ASSUME NEW o, NEW pc, NEW n
      PROVE  CallBy(t, o, pc, n)' <=>
               Waits(t, o, pc, n) \/ \E f \in {h} : f.obj = o /\ f.pc = pc /\ f.next = n
  BY <1>1 DEF CallBy, Waits
<1> QED
  BY <1>2, <1>3 DEF Becomes

LEMMA NestsBecomes ==
  ASSUME Inv, NEW t \in Threads, NEW h, NEW g, Nests(t, h, g)
  PROVE  Becomes(t, {h, g})
<1>1. /\ \A u \in Threads \ {t} : stack'[u] = stack[u]
      /\ Len(stack[t]) \in Nat \ {0} /\ DOMAIN stack[t] = 1 .. Len(stack[t])
      /\ DOMAIN stack'[t] = 1 .. Len(stack[t]) + 1 /\ stack'[t][1] = h /\ stack'[t][2] = g
      /\ \A k \in 2 .. Len(stack[t]) : stack'[t][k + 1] = stack[t][k]
  BY NestsFrames
<1>2. \A u \in Threads \ {t} : \A o, pc, n : CallBy(u, o, pc, n)' <=> CallBy(u, o, pc, n)
  BY <1>1 DEF CallBy
<1>3. PICK l \in Nat \ {0} : l = Len(stack[t])
  BY <1>1
<1>4. ASSUME NEW o, NEW pc, NEW n
      PROVE  CallBy(t, o, pc, n)' <=>
               Waits(t, o, pc, n) \/ \E f \in {h, g} : f.obj = o /\ f.pc = pc /\ f.next = n
  <2>1. ASSUME Waits(t, o, pc, n)
        PROVE  CallBy(t, o, pc, n)'
    <3>1. PICK k \in DOMAIN stack[t] \ {1} : stack[t][k].obj = o /\ stack[t][k].pc = pc /\ stack[t][k].next = n
      BY <2>1 DEF Waits
    <3>2. k \in 2 .. l /\ k + 1 \in 1 .. l + 1
      BY <1>1, <1>3
    <3> QED
      BY <1>1, <1>3, <3>1, <3>2 DEF CallBy
  <2>2. ASSUME NEW f \in {h, g}, f.obj = o /\ f.pc = pc /\ f.next = n
        PROVE  CallBy(t, o, pc, n)'
    <3>1. 1 \in 1 .. l + 1 /\ 2 \in 1 .. l + 1
      BY <1>3
    <3> QED
      BY <1>1, <1>3, <2>2, <3>1 DEF CallBy
  <2>3. ASSUME CallBy(t, o, pc, n)'
        PROVE  Waits(t, o, pc, n) \/ \E f \in {h, g} : f.obj = o /\ f.pc = pc /\ f.next = n
    <3>1. PICK k \in DOMAIN stack'[t] : stack'[t][k].obj = o /\ stack'[t][k].pc = pc /\ stack'[t][k].next = n
      BY <2>3 DEF CallBy
    <3>2. k \in 1 .. l + 1
      BY <1>1, <1>3, <3>1
    <3>3. CASE k \in 1 .. 2
      <4>1. k = 1 \/ k = 2
        BY <3>3
      <4> QED
        BY <1>1, <3>1, <4>1
    <3>4. CASE k \notin 1 .. 2
      <4>1. PICK j \in 2 .. l : k = j + 1
        <5>1. k - 1 \in 2 .. l /\ k = (k - 1) + 1
          BY <1>3, <3>2, <3>4
        <5> QED
          BY <5>1
      <4>2. stack'[t][k] = stack[t][j] /\ j \in DOMAIN stack[t] \ {1}
        BY <1>1, <1>3, <4>1
      <4> QED
        BY <3>1, <4>2 DEF Waits
    <3> QED
      BY <3>3, <3>4
  <2> QED
    BY <2>1, <2>2, <2>3
<1> QED
  BY <1>2, <1>4 DEF Becomes

LEMMA EndsShift ==
  ASSUME Inv, NEW t \in Threads, NEW b, Ends(t, b), NEW k \in 1 .. Len(stack[t]) - 1
  PROVE  /\ k + 1 \in DOMAIN stack[t] \ {1} /\ stack[t] \in Seq(FrameType)
         /\ stack'[t][k].obj = stack[t][k + 1].obj /\ stack'[t][k].pc = stack[t][k + 1].pc
         /\ stack'[t][k].next = stack[t][k + 1].next /\ stack'[t][k].op = stack[t][k + 1].op
         /\ k \in 2 .. Len(stack[t]) - 1 => stack'[t][k] = stack[t][k + 1]
<1>1. /\ Len(stack[t]) \in Nat \ {0} /\ DOMAIN stack[t] = 1 .. Len(stack[t])
      /\ Len(stack[t]) > 1 => stack'[t][1] = [stack[t][2] EXCEPT !.threw = b]
      /\ \A l \in 2 .. Len(stack[t]) - 1 : stack'[t][l] = stack[t][l + 1]
  BY EndsFrames
<1>2. stack[t] \in Seq(FrameType)
  BY DEF Inv, Types
<1>3. PICK l \in Nat \ {0} : l = Len(stack[t])
  BY <1>1
<1>4. k + 1 \in 2 .. l /\ k + 1 \in DOMAIN stack[t] \ {1}
  BY <1>1, <1>3
<1>5. CASE k \in 1 .. 1
  <2>1. k = 1 /\ k + 1 = 2 /\ Len(stack[t]) > 1
    BY <1>3, <1>5
  <2>2. stack[t][2] \in FrameType
    BY <1>2, <1>4, <2>1
  <2>3. k \notin 2 .. Len(stack[t]) - 1
    BY <1>5
  <2> QED
    BY <1>1, <1>2, <1>4, <2>1, <2>2, <2>3 DEF FrameType
<1>6. CASE k \notin 1 .. 1
  <2>1. k \in 2 .. Len(stack[t]) - 1
    BY <1>3, <1>6
  <2> QED
    BY <1>1, <1>2, <1>4, <2>1
<1> QED
  BY <1>5, <1>6

LEMMA EndsBecomes ==
  ASSUME Inv, NEW t \in Threads, NEW b, Ends(t, b)
  PROVE  Becomes(t, {})
<1>1. /\ \A u \in Threads \ {t} : stack'[u] = stack[u]
      /\ Len(stack[t]) \in Nat \ {0} /\ DOMAIN stack[t] = 1 .. Len(stack[t])
      /\ DOMAIN stack'[t] = 1 .. Len(stack[t]) - 1
      /\ Len(stack[t]) > 1 => stack'[t][1] = [stack[t][2] EXCEPT !.threw = b]
      /\ \A k \in 2 .. Len(stack[t]) - 1 : stack'[t][k] = stack[t][k + 1]
  BY EndsFrames
<1>2. \A u \in Threads \ {t} : \A o, pc, n : CallBy(u, o, pc, n)' <=> CallBy(u, o, pc, n)
  BY <1>1 DEF CallBy
<1>3. PICK l \in Nat \ {0} : l = Len(stack[t])
  BY <1>1
<1>4. ASSUME NEW k \in 1 .. l - 1
      PROVE  /\ k + 1 \in DOMAIN stack[t] \ {1}
             /\ stack'[t][k].obj = stack[t][k + 1].obj /\ stack'[t][k].pc = stack[t][k + 1].pc
             /\ stack'[t][k].next = stack[t][k + 1].next
  BY <1>3, EndsShift
<1>5. ASSUME NEW o, NEW pc, NEW n
      PROVE  CallBy(t, o, pc, n)' <=> Waits(t, o, pc, n)
  <2>1. ASSUME Waits(t, o, pc, n)
        PROVE  CallBy(t, o, pc, n)'
    <3>1. PICK k \in DOMAIN stack[t] \ {1} : stack[t][k].obj = o /\ stack[t][k].pc = pc /\ stack[t][k].next = n
      BY <2>1 DEF Waits
    <3>2. PICK j \in 1 .. l - 1 : k = j + 1
      <4>1. k - 1 \in 1 .. l - 1 /\ k = (k - 1) + 1
        BY <1>1, <1>3
      <4> QED
        BY <4>1
    <3> QED
      BY <1>1, <1>3, <1>4, <3>1, <3>2 DEF CallBy
  <2>2. ASSUME CallBy(t, o, pc, n)'
        PROVE  Waits(t, o, pc, n)
    <3>1. PICK k \in DOMAIN stack'[t] : stack'[t][k].obj = o /\ stack'[t][k].pc = pc /\ stack'[t][k].next = n
      BY <2>2 DEF CallBy
    <3>2. k \in 1 .. l - 1
      BY <1>1, <1>3, <3>1
    <3> QED
      BY <1>4, <3>1, <3>2 DEF Waits
  <2> QED
    BY <2>1, <2>2
<1> QED
  BY <1>2, <1>5 DEF Becomes

LEMMA WaitingAtParents ==
  ASSUME Inv, NEW t \in Threads, NEW k \in DOMAIN stack[t] \ {1}
  PROVE  /\ k \in 2 .. Len(stack[t]) /\ 1 \in DOMAIN stack[t]
         /\ stack[t][k].pc = "parents" /\ stack[t][1].obj < stack[t][k].obj
         /\ stack[t][1].op = "close"
<1>1. Types /\ Nested(t)
  BY DEF Inv, Calls
<1>2. PICK l \in Nat : l = Len(stack[t]) /\ DOMAIN stack[t] = 1 .. l
  BY <1>1, FrameTyped
<1>3. k \in 2 .. l /\ k > 1 /\ 1 \in 1 .. k - 1 /\ 1 \in 1 .. l
  BY <1>2
<1> QED
  BY <1>1, <1>2, <1>3 DEF Nested

LEMMA EnterersBecome ==
  ASSUME Inv, NEW t \in Threads, NEW new, Becomes(t, new), NEW o
  PROVE  /\ \A u \in Threads \ {t} : u \in Enterers(o)' <=> u \in Enterers(o)
         /\ t \in Enterers(o)' <=> \E f \in new : f.obj = o /\ f.pc = "enter"
<1>1. \A u \in Threads : Entering(u, o) <=> \E n : CallBy(u, o, "enter", n)
  BY DEF Entering, CallBy
<1>2. \A u \in Threads : Entering(u, o)' <=> \E n : CallBy(u, o, "enter", n)'
  BY DEF Entering, CallBy
<1>3. \A u \in Threads \ {t} : Entering(u, o)' <=> Entering(u, o)
  BY <1>1, <1>2 DEF Becomes
<1>4. \A n : ~Waits(t, o, "enter", n)
  BY WaitingAtParents DEF Waits
<1>5. Entering(t, o)' <=> \E f \in new : f.obj = o /\ f.pc = "enter"
  BY <1>2, <1>4 DEF Becomes
<1> QED
  BY <1>3, <1>5 DEF Enterers

LEMMA WorkingBecomes ==
  ASSUME NEW t \in Threads, NEW new, Becomes(t, new), NEW o, Working(o)'
  PROVE  Working(o) \/ \E f \in new : f.obj = o /\ f.pc \in {"clean", "free", "parents"}
<1>1. PICK u \in Threads, pc \in {"clean", "free", "parents"} : \E n : CallBy(u, o, pc, n)'
  BY DEF Working, CallBy
<1>2. PICK n : CallBy(u, o, pc, n)'
  BY <1>1
<1>3. CallBy(u, o, pc, n) \/ \E f \in new : f.obj = o /\ f.pc = pc
  BY <1>2 DEF Becomes, CallBy, Waits
<1> QED
  BY <1>1, <1>3 DEF Working, CallBy

\* The call that was the innermost does not go back in its list of parents.
TopKept(t, new) ==
  1 \in DOMAIN stack[t] /\ stack[t][1].pc = "parents" /\ object'[stack[t][1].obj].owning =>
    \E f \in new :
      /\ f.obj = stack[t][1].obj /\ f.pc = "parents" /\ f.next \in Nat
      /\ stack[t][1].next <= f.next

LEMMA OwnersBecome ==
  ASSUME Inv, Grows, NEW t \in Threads, NEW new, Becomes(t, new), TopKept(t, new),
         NEW c \in Made, NEW p, Owns(c, p)'
  PROVE  Owns(c, p)
<1>1. Types
  BY DEF Inv
<1>2. object[c].owning /\ object'[c].owning /\ object'[c].parents = object[c].parents
  BY DEF Owns, Grows
<1>3. p \in Range(object[c].parents)
  BY <1>2 DEF Owns
<1>4. \A u \in Threads : \A n : CallBy(u, c, "parents", n)' => \A i \in 1 .. n - 1 : object[c].parents[i] # p
  BY <1>2 DEF Owns, CallBy
<1> SUFFICES ASSUME NEW u \in Threads, NEW k \in DOMAIN stack[u], stack[u][k].obj = c,
                    stack[u][k].pc = "parents",
                    NEW i \in 1 .. stack[u][k].next - 1, object[c].parents[i] = p
             PROVE  FALSE
  BY <1>2, <1>3 DEF Owns
<1> PICK n : n = stack[u][k].next
  OBVIOUS
<1>5. CASE u # t
  <2>1. CallBy(u, c, "parents", n)
    BY DEF CallBy
  <2>2. CallBy(u, c, "parents", n)'
    BY <1>5, <2>1 DEF Becomes
  <2> QED
    BY <1>4, <2>2
<1>6. CASE u = t /\ k # 1
  <2>1. Waits(t, c, "parents", n)
    BY <1>6 DEF Waits
  <2>2. CallBy(t, c, "parents", n)'
    BY <2>1 DEF Becomes
  <2> QED
    BY <1>4, <1>6, <2>2
<1>7. CASE u = t /\ k = 1
  <2>1. PICK f \in new : /\ f.obj = c /\ f.pc = "parents" /\ f.next \in Nat /\ stack[t][1].next <= f.next
    BY <1>2, <1>7 DEF TopKept
  <2>2. CallBy(t, c, "parents", f.next)'
    BY <2>1 DEF Becomes
  <2>3. stack[t][1].next \in Nat
    BY <1>1, <1>7, FrameTyped
  <2>4. PICK m \in Nat, d \in Nat : m = stack[t][1].next /\ d = f.next /\ m <= d
    BY <2>1, <2>3
  <2>5. i \in 1 .. f.next - 1
    BY <1>7, <2>4
  <2> QED
    BY <1>4, <2>2, <2>5
<1> QED
  BY <1>5, <1>6, <1>7

\* Who is closing a parent of an object is alone there, and so is who frees its native memory,
\* but for the two ways to clean a mapped file when the virtual machine exits.
LEMMA Alone ==
  ASSUME Inv, NEW t \in Threads, NEW k \in DOMAIN stack[t], NEW u \in Threads, NEW l \in DOMAIN stack[u],
         u # t \/ l # k, k = 1,
         stack[u][l].obj = stack[t][k].obj,
         stack[t][k].pc \in {"free", "parents"}, stack[u][l].pc \in {"free", "parents"}
  PROVE  /\ object[stack[t][k].obj].kind = "mmap" /\ mode.debug
         /\ stack[t][k].pc = "free" /\ stack[u][l].pc = "free"
<1> PICK o : o = stack[t][k].obj
  OBVIOUS
<1>1. Types /\ FrameOK(t, k) /\ FrameOK(u, l) /\ Heap /\ Exiting
  BY DEF Inv, Calls
<1>2. o \in Made /\ WellMade(o) /\ Accounted(o)
  BY <1>1 DEF FrameOK, Heap
<1>3. u # t
  <2> SUFFICES ASSUME u = t
               PROVE  FALSE
    OBVIOUS
  <2>1. l \in DOMAIN stack[t] \ {1}
    OBVIOUS
  <2>2. stack[t][1].obj < stack[t][l].obj
    BY <2>1, WaitingAtParents
  <2>3. o \in Nat
    BY <1>1, FrameTyped
  <2> QED
    BY <2>2, <2>3
<1>4. object[o].kind = "mmap"
  BY <1>1, <1>3 DEF FrameOK
<1>5. ~object[o].owning
  BY <1>2, <1>4 DEF Accounted, WellMade
<1>6. stack[t][k].pc = "free" /\ stack[u][l].pc = "free"
  BY <1>1, <1>5 DEF FrameOK
<1>7. mode.debug
  <2> SUFFICES ASSUME ~mode.debug
               PROVE  FALSE
    OBVIOUS
  <2>1. exit.pc = "up"
    BY <1>1 DEF Exiting
  <2>2. stack[t][k].op \in Ops /\ stack[u][l].op \in Ops
    BY <1>1, FrameTyped
  <2>3. /\ stack[t][k].op = "sweep" => t = Cleaner /\ o \in gone
        /\ stack[t][k].op = "close" => monitor[o] = t /\ o \notin gone
        /\ stack[u][l].op = "sweep" => u = Cleaner /\ o \in gone
        /\ stack[u][l].op = "close" => monitor[o] = u /\ o \notin gone
        /\ stack[t][k].op # "exit" /\ stack[u][l].op # "exit"
    BY <1>1, <1>6, <2>1 DEF FrameOK
  <2> QED
    BY <1>3, <2>2, <2>3 DEF Ops
<1> QED
  BY <1>4, <1>6, <1>7

(***************************************************************************)
(* The calls of the next state.                                             *)
(***************************************************************************)
LEMMA ChangesCalls ==
  ASSUME Inv, Types', Grows, NEW t \in Threads, NEW g, Changes(t, g), Others(t), FrameOK(t, 1)',
         g.pc # "enter",
         \A o \in Objects :
           monitor'[o] = monitor[o] \/ (g.op = "close" /\ o = g.obj /\ monitor'[o] = t)
  PROVE  Calls' /\ Entered'
<1>1. /\ \A u \in Threads \ {t} : stack'[u] = stack[u]
      /\ DOMAIN stack'[t] = DOMAIN stack[t] /\ 1 \in DOMAIN stack[t] /\ stack'[t][1] = g
      /\ \A k \in DOMAIN stack[t] \ {1} : stack'[t][k] = stack[t][k]
  BY ChangesFrames
<1>2. g.obj = stack[t][1].obj /\ g.op = stack[t][1].op
  BY DEF Changes
<1>3. Types /\ Calls /\ Entered
  BY DEF Inv
<1>4. ASSUME NEW u \in Threads, NEW k \in DOMAIN stack'[u]
      PROVE  FrameOK(u, k)'
  <2>1. CASE u # t \/ k # 1
    <3>1. k \in DOMAIN stack[u] /\ stack'[u][k] = stack[u][k]
      BY <1>1, <1>4, <2>1
    <3>2. Undisturbed(u, k)
      BY <2>1, <3>1 DEF Others
    <3> QED
      BY <3>1, <3>2, OtherFrame
  <2> QED
    BY <2>1
<1>5. ASSUME NEW u \in Threads
      PROVE  Nested(u)'
  <2>1. CASE u # t
    BY <1>1, <1>3, <2>1 DEF Calls, Nested
  <2>2. CASE u = t
    <3>1. \A k \in DOMAIN stack[t] : stack'[t][k].obj = stack[t][k].obj /\ stack'[t][k].op = stack[t][k].op
      BY <1>1, <1>2
    <3>2. DOMAIN stack[t] = 1 .. Len(stack[t]) /\ Len(stack[t]) \in Nat
      BY <1>1, <1>3, FrameTyped
    <3>3. \A k \in DOMAIN stack[t] : k > 1 => stack'[t][k].pc = "parents"
      BY <1>1, <1>3, <3>2 DEF Calls, Nested
    <3>4. \A k \in DOMAIN stack[t] : \A j \in 1 .. k - 1 : j \in DOMAIN stack[t]
      BY <3>2
    <3>5. \A k \in DOMAIN stack[t] : \A j \in 1 .. k - 1 : stack[t][j].obj < stack[t][k].obj /\ stack[t][j].op = "close"
      BY <1>3 DEF Calls, Nested
    <3> QED
      BY <1>1, <2>2, <3>1, <3>3, <3>4, <3>5 DEF Nested
  <2> QED
    BY <2>1, <2>2
<1>6. Entered'
  <2> SUFFICES ASSUME NEW o \in Objects, monitor'[o] # None
               PROVE  \E k \in DOMAIN stack'[monitor'[o]] :
                        /\ stack'[monitor'[o]][k].obj = o /\ stack'[monitor'[o]][k].op = "close"
                        /\ stack'[monitor'[o]][k].pc # "enter"
    BY DEF Entered
  <2>1. CASE monitor'[o] = monitor[o]
    <3>1. monitor[o] \in Threads
      BY <1>3, <2>1 DEF Types
    <3>2. PICK k \in DOMAIN stack[monitor[o]] :
                 /\ stack[monitor[o]][k].obj = o /\ stack[monitor[o]][k].op = "close"
                 /\ stack[monitor[o]][k].pc # "enter"
      BY <1>3, <2>1 DEF Entered
    <3>3. CASE monitor[o] # t
      BY <1>1, <2>1, <3>1, <3>2, <3>3
    <3>4. CASE monitor[o] = t
      BY <1>1, <1>2, <2>1, <3>2, <3>4
    <3> QED
      BY <3>3, <3>4
  <2>2. CASE g.op = "close" /\ o = g.obj /\ monitor'[o] = t
    BY <1>1, <2>2
  <2> QED
    BY <2>1, <2>2
<1> QED
  BY <1>4, <1>5, <1>6 DEF Calls

LEMMA BeginsCalls ==
  ASSUME Inv, Types', Grows, NEW t \in Threads, NEW h, Begins(t, h), Others(t), FrameOK(t, 1)',
         monitor' = monitor
  PROVE  Calls' /\ Entered'
<1>1. /\ \A u \in Threads \ {t} : stack'[u] = stack[u]
      /\ DOMAIN stack[t] = {} /\ DOMAIN stack'[t] = {1} /\ stack'[t][1] = h
  BY BeginsFrames
<1>2. Types /\ Calls /\ Entered
  BY DEF Inv
<1>3. ASSUME NEW u \in Threads, NEW k \in DOMAIN stack'[u]
      PROVE  FrameOK(u, k)'
  <2>1. CASE u # t \/ k # 1
    <3>1. k \in DOMAIN stack[u] /\ stack'[u][k] = stack[u][k]
      BY <1>1, <1>3, <2>1
    <3>2. Undisturbed(u, k)
      BY <2>1, <3>1 DEF Others
    <3> QED
      BY <3>1, <3>2, OtherFrame
  <2> QED
    BY <2>1
<1>4. ASSUME NEW u \in Threads
      PROVE  Nested(u)'
  <2>1. CASE u # t
    BY <1>1, <1>2, <2>1 DEF Calls, Nested
  <2>2. CASE u = t
    <3>1. \A k \in {1} : ~(k > 1) /\ 1 .. k - 1 = {}
      OBVIOUS
    <3> QED
      BY <1>1, <2>2, <3>1 DEF Nested
  <2> QED
    BY <2>1, <2>2
<1>5. Entered'
  <2> SUFFICES ASSUME NEW o \in Objects, monitor[o] # None
               PROVE  \E k \in DOMAIN stack'[monitor[o]] :
                        /\ stack'[monitor[o]][k].obj = o /\ stack'[monitor[o]][k].op = "close"
                        /\ stack'[monitor[o]][k].pc # "enter"
    BY DEF Entered
  <2>1. monitor[o] \in Threads
    BY <1>2 DEF Types
  <2> QED
    BY <1>1, <1>2, <2>1 DEF Entered
<1> QED
  BY <1>3, <1>4, <1>5 DEF Calls

LEMMA NestsCalls ==
  ASSUME Inv, Types', Grows, NEW t \in Threads, NEW h, NEW g, Nests(t, h, g), Others(t),
         FrameOK(t, 1)', FrameOK(t, 2)', monitor' = monitor
  PROVE  Calls' /\ Entered'
<1>1. /\ \A u \in Threads \ {t} : stack'[u] = stack[u]
      /\ Len(stack[t]) \in Nat \ {0} /\ DOMAIN stack[t] = 1 .. Len(stack[t])
      /\ DOMAIN stack'[t] = 1 .. Len(stack[t]) + 1 /\ stack'[t][1] = h /\ stack'[t][2] = g
      /\ \A k \in 2 .. Len(stack[t]) : stack'[t][k + 1] = stack[t][k]
  BY NestsFrames
<1>2. /\ g.obj = stack[t][1].obj /\ g.op = stack[t][1].op /\ g.pc = "parents"
      /\ h.obj < g.obj /\ h.op = "close" /\ h.obj \in Nat /\ g.obj \in Nat
  BY DEF Nests, FrameType
<1>3. Types /\ Calls /\ Entered
  BY DEF Inv
<1>4. PICK l \in Nat \ {0} : l = Len(stack[t])
  BY <1>1
<1>5. ASSUME NEW k \in 1 .. l + 1, k \notin {1, 2}
      PROVE  \E j \in DOMAIN stack[t] \ {1} : k = j + 1 /\ j \in 2 .. l /\ stack'[t][k] = stack[t][j]
  <2>1. k \notin 1 .. 2
    BY <1>5
  <2>2. k - 1 \in 2 .. l /\ k = (k - 1) + 1
    BY <1>4, <1>5, <2>1
  <2>3. k - 1 \in DOMAIN stack[t] \ {1}
    BY <1>1, <1>4, <2>2
  <2> QED
    BY <1>1, <1>4, <2>2, <2>3
<1>6. ASSUME NEW u \in Threads, NEW k \in DOMAIN stack'[u]
      PROVE  FrameOK(u, k)'
  <2>1. CASE u # t
    <3>1. k \in DOMAIN stack[u] /\ stack'[u][k] = stack[u][k]
      BY <1>1, <1>6, <2>1
    <3>2. Undisturbed(u, k)
      BY <2>1, <3>1 DEF Others
    <3> QED
      BY <3>1, <3>2, OtherFrame
  <2>2. CASE u = t /\ k \in {1, 2}
    BY <2>2
  <2>3. CASE u = t /\ k \notin {1, 2}
    <3>1. PICK j \in DOMAIN stack[t] \ {1} : stack'[t][k] = stack[t][j]
      BY <1>1, <1>4, <1>5, <1>6, <2>3
    <3>2. Undisturbed(t, j)
      BY <3>1 DEF Others
    <3> QED
      BY <2>3, <3>1, <3>2, OtherFrame
  <2> QED
    BY <2>1, <2>2, <2>3
<1>7. ASSUME NEW u \in Threads
      PROVE  Nested(u)'
  <2>1. CASE u # t
    BY <1>1, <1>3, <2>1 DEF Calls, Nested
  <2>2. CASE u = t
    <3> SUFFICES ASSUME NEW k \in 1 .. l + 1, k > 1
                 PROVE  /\ stack'[t][k].pc = "parents"
                        /\ \A j \in 1 .. k - 1 : stack'[t][j].obj < stack'[t][k].obj /\ stack'[t][j].op = "close"
      <4>1. \A k \in 1 .. l + 1 : ~(k > 1) => \A j \in 1 .. k - 1 : FALSE
        OBVIOUS
      <4> QED
        BY <1>1, <1>4, <2>2, <4>1 DEF Nested
    <3>1. CASE k \in {1, 2}
      <4>1. k = 2 /\ \A j \in 1 .. k - 1 : j = 1
        BY <3>1
      <4> QED
        BY <1>1, <1>2, <4>1
    <3>2. CASE k \notin {1, 2}
      <4>1. PICK i \in DOMAIN stack[t] \ {1} : k = i + 1 /\ i \in 2 .. l /\ stack'[t][k] = stack[t][i]
        BY <1>5, <3>2
      <4>2. stack'[t][k].pc = "parents" /\ stack[t][1].obj < stack[t][i].obj /\ stack[t][1].op = "close"
        BY <4>1, WaitingAtParents
      <4>3. stack[t][i].obj \in Nat
        BY <1>3, <4>1, FrameTyped
      <4>4. ASSUME NEW j \in 1 .. k - 1
            PROVE  stack'[t][j].obj < stack'[t][k].obj /\ stack'[t][j].op = "close"
        <5>1. CASE j = 1
          <6>1. PICK x \in Nat, y \in Nat, z \in Nat : x = h.obj /\ y = g.obj /\ z = stack[t][i].obj
            BY <1>2, <4>3
          <6>2. x < y /\ y < z
            BY <1>2, <4>2, <6>1
          <6>3. x < z
            BY <6>2
          <6> QED
            BY <1>1, <1>2, <4>1, <5>1, <6>1, <6>3
        <5>2. CASE j = 2
          BY <1>1, <1>2, <4>1, <4>2, <5>2
        <5>3. CASE j \notin {1, 2}
          <6>1. j \in 1 .. l + 1
            BY <1>4, <4>1
          <6>2. PICK m \in DOMAIN stack[t] \ {1} : j = m + 1 /\ m \in 2 .. l /\ stack'[t][j] = stack[t][m]
            BY <1>5, <5>3, <6>1
          <6>3. m \in 1 .. i - 1
            BY <1>4, <4>1, <6>2
          <6> QED
            BY <1>3, <4>1, <6>2, <6>3 DEF Calls, Nested
        <5> QED
          BY <5>1, <5>2, <5>3
      <4> QED
        BY <4>2, <4>4
    <3> QED
      BY <3>1, <3>2
  <2> QED
    BY <2>1, <2>2
<1>8. Entered'
  <2> SUFFICES ASSUME NEW o \in Objects, monitor[o] # None
               PROVE  \E k \in DOMAIN stack'[monitor[o]] :
                        /\ stack'[monitor[o]][k].obj = o /\ stack'[monitor[o]][k].op = "close"
                        /\ stack'[monitor[o]][k].pc # "enter"
    BY DEF Entered
  <2>1. monitor[o] \in Threads
    BY <1>3 DEF Types
  <2>2. PICK k \in DOMAIN stack[monitor[o]] :
               /\ stack[monitor[o]][k].obj = o /\ stack[monitor[o]][k].op = "close"
               /\ stack[monitor[o]][k].pc # "enter"
    BY <1>3 DEF Entered
  <2>3. CASE monitor[o] # t
    BY <1>1, <2>1, <2>2, <2>3
  <2>4. CASE monitor[o] = t /\ k = 1
    <3>1. 2 \in 1 .. l + 1
      BY <1>4
    <3> QED
      BY <1>1, <1>2, <1>4, <2>2, <2>4, <3>1
  <2>5. CASE monitor[o] = t /\ k # 1
    <3>1. k \in 2 .. l /\ k + 1 \in 1 .. l + 1
      BY <1>1, <1>4, <2>2, <2>5
    <3> QED
      BY <1>1, <1>4, <2>2, <2>5, <3>1
  <2> QED
    BY <2>3, <2>4, <2>5
<1> QED
  BY <1>6, <1>7, <1>8 DEF Calls

LEMMA EndsCalls ==
  ASSUME Inv, Types', Grows, NEW t \in Threads, NEW b, Ends(t, b), Others(t),
         Len(stack[t]) > 1 /\ stack[t][2].threw => b,
         \A o \in Objects : monitor'[o] = monitor[o] \/ monitor'[o] = None,
         stack[t][1].op = "close" => monitor'[stack[t][1].obj] = None
  PROVE  Calls' /\ Entered'
<1>1. /\ \A u \in Threads \ {t} : stack'[u] = stack[u]
      /\ Len(stack[t]) \in Nat \ {0} /\ DOMAIN stack[t] = 1 .. Len(stack[t])
      /\ DOMAIN stack'[t] = 1 .. Len(stack[t]) - 1
      /\ Len(stack[t]) > 1 => stack'[t][1] = [stack[t][2] EXCEPT !.threw = b]
  BY EndsFrames
<1>2. Types /\ Calls /\ Entered /\ b \in BOOLEAN
  BY DEF Inv, Ends
<1>3. PICK l \in Nat \ {0} : l = Len(stack[t])
  BY <1>1
<1>4. ASSUME NEW u \in Threads, NEW k \in DOMAIN stack'[u]
      PROVE  FrameOK(u, k)'
  <2>1. CASE u # t
    <3>1. k \in DOMAIN stack[u] /\ stack'[u][k] = stack[u][k]
      BY <1>1, <1>4, <2>1
    <3>2. Undisturbed(u, k)
      BY <2>1, <3>1 DEF Others
    <3> QED
      BY <3>1, <3>2, OtherFrame
  <2>2. CASE u = t /\ k \in 2 .. l - 1
    <3>1. k + 1 \in DOMAIN stack[t] \ {1} /\ stack'[t][k] = stack[t][k + 1]
      <4>1. k \in 1 .. l - 1
        BY <1>3, <2>2
      <4> QED
        BY <1>3, <2>2, <4>1, EndsShift
    <3>2. PICK j \in DOMAIN stack[t] \ {1} : stack'[t][k] = stack[t][j]
      BY <3>1
    <3>3. Undisturbed(t, j)
      BY <3>2 DEF Others
    <3> QED
      BY <2>2, <3>2, <3>3, OtherFrame
  <2>3. CASE u = t /\ k \notin 2 .. l - 1
    <3>1. k \in 1 .. l - 1
      BY <1>1, <1>3, <1>4, <2>3
    <3>2. k = 1 /\ 2 \in 1 .. l /\ Len(stack[t]) > 1 /\ 2 \in DOMAIN stack[t] \ {1}
      BY <1>1, <1>3, <2>3, <3>1
    <3>3. Undisturbed(t, 2) /\ stack[t][2].pc = "parents"
      BY <3>2, WaitingAtParents DEF Others
    <3>4. stack[t][2] \in FrameType /\ FrameOK(t, 2)
      BY <1>2, <3>2, FrameTyped DEF Calls
    <3>5. stack[t][2].next \in 1 .. Len(object[stack[t][2].obj].parents) + 1
      BY <3>3, <3>4 DEF FrameOK
    <3>6. PICK g : g = [stack[t][2] EXCEPT !.threw = b]
      OBVIOUS
    <3>7. GoesOn(stack[t][2], g) /\ g.next = stack[t][2].next
      <4>1. stack[t][2].threw => b
        BY <3>2
      <4>2. g.obj = stack[t][2].obj /\ g.op = stack[t][2].op /\ g.pc = stack[t][2].pc /\ g.next = stack[t][2].next
        BY <3>4, <3>6 DEF FrameType
      <4>3. g.threw = b
        BY <3>4, <3>6 DEF FrameType
      <4> QED
        BY <4>1, <4>2, <4>3 DEF GoesOn
    <3>8. PICK j \in DOMAIN stack[t] : j = 2
      BY <3>2
    <3>9. /\ Undisturbed(t, j) /\ stack[t][j].pc = "parents" /\ GoesOn(stack[t][j], stack'[t][k])
          /\ stack'[t][k].next \in 1 .. Len(object[stack[t][j].obj].parents) + 1
      BY <1>1, <3>2, <3>3, <3>5, <3>6, <3>7, <3>8
    <3>10. FrameOK(t, k)'
      BY <3>9, WaitingFrame
    <3> QED
      BY <2>3, <3>10
  <2> QED
    BY <2>1, <2>2, <2>3
<1>5. ASSUME NEW u \in Threads
      PROVE  Nested(u)'
  <2>1. CASE u # t
    BY <1>1, <1>2, <2>1 DEF Calls, Nested
  <2>2. CASE u = t
    <3> SUFFICES ASSUME NEW k \in 1 .. l - 1
                 PROVE  /\ stack'[t][k].pc = "parents"
                        /\ \A j \in 1 .. k - 1 : stack'[t][j].obj < stack'[t][k].obj /\ stack'[t][j].op = "close"
      BY <1>1, <1>3, <2>2 DEF Nested
    <3>1. k + 1 \in DOMAIN stack[t] \ {1} /\ stack'[t][k].obj = stack[t][k + 1].obj /\ stack'[t][k].pc = stack[t][k + 1].pc
      BY <1>3, EndsShift
    <3>2. ASSUME NEW j \in 1 .. k - 1
          PROVE  stack'[t][j].obj < stack'[t][k].obj /\ stack'[t][j].op = "close"
      <4>1. j \in 1 .. l - 1 /\ j + 1 \in 1 .. (k + 1) - 1
        BY <1>3
      <4>2. stack'[t][j].obj = stack[t][j + 1].obj /\ stack'[t][j].op = stack[t][j + 1].op
        BY <1>3, <4>1, EndsShift
      <4>3. Nested(t)
        BY <1>2 DEF Calls
      <4>4. stack[t][j + 1].obj < stack[t][k + 1].obj /\ stack[t][j + 1].op = "close"
        BY <3>1, <4>1, <4>3 DEF Nested
      <4> QED
        BY <3>1, <4>2, <4>4
    <3>3. PICK m \in DOMAIN stack[t] \ {1} : m = k + 1
      BY <3>1
    <3> QED
      BY <3>1, <3>2, <3>3, WaitingAtParents
  <2> QED
    BY <2>1, <2>2
<1>6. Entered'
  <2> SUFFICES ASSUME NEW o \in Objects, monitor'[o] # None
               PROVE  \E k \in DOMAIN stack'[monitor'[o]] :
                        /\ stack'[monitor'[o]][k].obj = o /\ stack'[monitor'[o]][k].op = "close"
                        /\ stack'[monitor'[o]][k].pc # "enter"
    BY DEF Entered
  <2>1. monitor'[o] = monitor[o] /\ monitor[o] \in Threads
    BY <1>2 DEF Types
  <2>2. PICK k \in DOMAIN stack[monitor[o]] :
               /\ stack[monitor[o]][k].obj = o /\ stack[monitor[o]][k].op = "close"
               /\ stack[monitor[o]][k].pc # "enter"
    BY <1>2, <2>1 DEF Entered
  <2>3. CASE monitor[o] # t
    BY <1>1, <2>1, <2>2, <2>3
  <2>4. CASE monitor[o] = t
    <3>1. k # 1
      BY <2>2, <2>4
    <3>2. PICK j \in 1 .. l - 1 : k = j + 1
      <4>1. k - 1 \in 1 .. l - 1 /\ k = (k - 1) + 1
        BY <1>1, <1>3, <2>2, <2>4, <3>1
      <4> QED
        BY <4>1
    <3>3. stack'[t][j].obj = o /\ stack'[t][j].op = "close" /\ stack'[t][j].pc # "enter"
      BY <1>3, <2>2, <2>4, <3>2, EndsShift
    <3> QED
      BY <1>1, <1>3, <2>1, <2>4, <3>2, <3>3
  <2> QED
    BY <2>3, <2>4
<1> QED
  BY <1>4, <1>5, <1>6 DEF Calls

(***************************************************************************)
(* A step of the calls.                                                     *)
(***************************************************************************)
\* It makes and collects nothing.
Quiet ==
  /\ Types' /\ Grows /\ Len(object') = Len(object)
  /\ gone' = gone /\ rmm' = rmm
  /\ exit'.pc = exit.pc /\ (exit'.todo # {} => exit.todo # {})
  /\ \A o \in Objects :
       /\ references'[o] <= references[o]
       /\ memory'[o] = "live" => memory[o] = "live"
       /\ o \notin Made => memory'[o] = memory[o]

\* A count still covers the references, the owners and the calls that will give one up.
Tally(t, o) ==
  /\ object'[o].refCount <= object[o].refCount
  /\ Owners(o)' \subseteq Owners(o)
  /\ \/ /\ Enterers(o)' \subseteq Enterers(o)
        /\ object'[o].refCount - references'[o] >= object[o].refCount - references[o]
     \/ /\ Enterers(o)' \subseteq Enterers(o) \cup {t}
        /\ object'[o].refCount - references'[o] >= object[o].refCount - references[o] + 1
     \/ /\ Enterers(o)' \subseteq Enterers(o) \ {t} /\ t \in Enterers(o)
        /\ object'[o].refCount - references'[o] >= object[o].refCount - references[o] - 1
     \/ /\ Enterers(o)' \subseteq Enterers(o) \cup {t}
        /\ \E x \in Owners(o) : Owners(o)' \subseteq Owners(o) \ {x}
        /\ object'[o].refCount - references'[o] >= object[o].refCount - references[o]

LEMMA QuietStep ==
  ASSUME Inv, Quiet
  PROVE  /\ Made' = Made /\ (\A o \in Made : WellMade(o)')
         /\ Unmade' /\ Unreferenced' /\ Exiting' /\ Looked'
<1>1. Types /\ Heap /\ Unmade /\ Unreferenced /\ Exiting /\ Looked /\ Types' /\ Grows
  BY DEF Inv, Quiet
<1>2. Made' = Made
  BY <1>1, MadeIs DEF Quiet, Made, Types
<1>3. Made \subseteq Objects /\ gone \subseteq Made
  BY <1>1, MadeIs DEF Types
<1>4. \A o \in Objects : references[o] \in Nat /\ references'[o] \in Nat
  BY <1>1 DEF Types
<1>5. \A o \in Made : WellMade(o)'
  BY <1>1, MadeKept DEF Heap
<1>6. Unmade'
  <2> SUFFICES ASSUME NEW o \in Objects \ Made
               PROVE  memory'[o] = "none" /\ references'[o] = 0
    BY <1>2 DEF Unmade
  <2>1. memory[o] = "none" /\ references[o] = 0 /\ references'[o] <= references[o] /\ references'[o] \in Nat
    BY <1>1, <1>4 DEF Unmade, Quiet
  <2>2. memory'[o] = memory[o]
    BY DEF Quiet
  <2> QED
    BY <2>1, <2>2
<1>7. Unreferenced'
  <2>1. \A c \in Made : object'[c].parents = object[c].parents /\ (object'[c].owning => object[c].owning)
    BY <1>1 DEF Grows
  <2>2. ASSUME NEW o \in gone
        PROVE  references'[o] = 0
    <3>1. references[o] = 0 /\ references'[o] <= references[o] /\ references'[o] \in Nat
      BY <1>1, <1>3, <1>4 DEF Unreferenced, Quiet
    <3> QED
      BY <3>1
  <2>3. gone' = gone
    BY DEF Quiet
  <2> QED
    BY <1>1, <1>2, <2>1, <2>2, <2>3 DEF Unreferenced, Parents
<1>8. Exiting' /\ Looked'
  <2>1. /\ mode' = mode /\ failed \subseteq failed' /\ rmm' = rmm /\ exit'.pc = exit.pc
        /\ exit'.todo # {} => exit.todo # {}
        /\ \A o \in Made : object'[o].kind = object[o].kind /\ (memory'[o] = "live" => memory[o] = "live")
    BY <1>3 DEF Quiet, Grows
  <2> QED
    BY <1>1, <1>2, <2>1 DEF Exiting, Looked
<1> QED
  BY <1>2, <1>5, <1>6, <1>7, <1>8

LEMMA CallCounts ==
  ASSUME Inv, Quiet, NEW t \in Threads, \A o \in Made : Tally(t, o)
  PROVE  Counting'
<1>1. Types /\ Counting /\ Types' /\ Made' = Made /\ Len(object') = Len(object)
  BY QuietStep DEF Inv, Quiet
<1> SUFFICES ASSUME NEW o \in Made
             PROVE  Counts(o)'
  BY <1>1 DEF Counting
<1>2. Tally(t, o) /\ Counts(o)
  BY <1>1 DEF Counting
<1> PICK A, B, C, D : A = Owners(o) /\ B = Owners(o)' /\ C = Enterers(o) /\ D = Enterers(o)'
  OBVIOUS
<1>3. IsFiniteSet(A) /\ Cardinality(A) \in Nat /\ IsFiniteSet(C) /\ Cardinality(C) \in Nat
  BY <1>1, CountsAreNumbers
<1>4. B \subseteq A /\ IsFiniteSet(B) /\ Cardinality(B) \in Nat /\ Cardinality(B) <= Cardinality(A)
  <2>1. B \subseteq A
    BY <1>2 DEF Tally
  <2> QED
    BY <1>3, <2>1, FS_Subset, FS_CardinalityType
<1>5. /\ IsFiniteSet(C \cup {t}) /\ Cardinality(C \cup {t}) \in Nat
      /\ Cardinality(C \cup {t}) <= Cardinality(C) + 1
      /\ IsFiniteSet(C \ {t}) /\ Cardinality(C \ {t}) \in Nat
      /\ t \in C => Cardinality(C \ {t}) = Cardinality(C) - 1
  <2>1. IsFiniteSet(C \cup {t}) /\ IsFiniteSet(C \ {t})
    BY <1>3, FS_AddElement, FS_RemoveElement
  <2>2. Cardinality(C \cup {t}) \in Nat /\ Cardinality(C \ {t}) \in Nat
    BY <2>1, FS_CardinalityType
  <2>3. Cardinality(C \cup {t}) = IF t \in C THEN Cardinality(C) ELSE Cardinality(C) + 1
    BY <1>3, FS_AddElement
  <2>4. Cardinality(C \ {t}) = IF t \in C THEN Cardinality(C) - 1 ELSE Cardinality(C)
    BY <1>3, FS_RemoveElement
  <2>5. Cardinality(C \cup {t}) <= Cardinality(C) + 1
    BY <1>3, <2>3
  <2> QED
    BY <2>1, <2>2, <2>4, <2>5
<1>6. \A x \in A : /\ IsFiniteSet(A \ {x}) /\ Cardinality(A \ {x}) \in Nat
                   /\ Cardinality(A \ {x}) = Cardinality(A) - 1
  BY <1>3, FS_RemoveElement, FS_CardinalityType
<1>7. PICK r \in Int, s \in Int, m \in Nat, n \in Nat :
        r = object[o].refCount /\ s = object'[o].refCount /\ m = references[o] /\ n = references'[o]
  <2>1. o \in Objects /\ object[o].refCount \in Int
    BY <1>1, MadeIs
  <2>2. object'[o].refCount \in Int
    <3>1. object' \in Seq(ObjectType) /\ o \in DOMAIN object'
      BY <1>1 DEF Types, Made
    <3>2. object'[o] \in ObjectType
      BY <3>1
    <3> QED
      BY <3>2 DEF ObjectType
  <2>3. references[o] \in Nat /\ references'[o] \in Nat
    BY <1>1, <2>1 DEF Types
  <2> QED
    BY <2>1, <2>2, <2>3
<1>8. MaxRefs + Len(object) \in Nat
  BY <1>1, MadeIs, BoundsAssumption
<1>9. r <= MaxRefs + Len(object) /\ r >= m + Cardinality(A) + Cardinality(C)
  BY <1>2, <1>7 DEF Counts
<1>10. s <= r
  BY <1>2, <1>7 DEF Tally
<1>11. /\ D \subseteq C \/ D \subseteq C \cup {t} \/ D \subseteq C \ {t}
       /\ \/ D \subseteq C /\ s - n >= r - m
          \/ D \subseteq C \cup {t} /\ s - n >= r - m + 1
          \/ D \subseteq C \ {t} /\ t \in C /\ s - n >= r - m - 1
          \/ D \subseteq C \cup {t} /\ (\E x \in A : B \subseteq A \ {x}) /\ s - n >= r - m
  BY <1>2, <1>7 DEF Tally
<1>12. IsFiniteSet(D) /\ Cardinality(D) \in Nat
  BY <1>3, <1>5, <1>11, FS_Subset, FS_CardinalityType
<1>13. s >= n + Cardinality(B) + Cardinality(D)
  <2>1. PICK a \in Nat, b \in Nat, c \in Nat, d \in Nat :
               a = Cardinality(A) /\ b = Cardinality(B) /\ c = Cardinality(C) /\ d = Cardinality(D)
    BY <1>3, <1>4, <1>12
  <2>2. b <= a /\ r >= m + a + c
    BY <1>4, <1>9, <2>1
  <2>3. CASE D \subseteq C /\ s - n >= r - m
    <3>1. d <= c
      BY <1>3, <2>1, <2>3, FS_Subset
    <3> QED
      BY <2>1, <2>2, <2>3, <3>1
  <2>4. CASE D \subseteq C \cup {t} /\ s - n >= r - m + 1
    <3>1. Cardinality(D) <= Cardinality(C \cup {t})
      BY <1>5, <2>4, FS_Subset
    <3>2. d <= c + 1
      BY <1>5, <2>1, <3>1
    <3> QED
      BY <2>1, <2>2, <2>4, <3>2
  <2>5. CASE D \subseteq C \ {t} /\ t \in C /\ s - n >= r - m - 1
    <3>1. Cardinality(D) <= Cardinality(C \ {t})
      BY <1>5, <2>5, FS_Subset
    <3>2. d <= c - 1
      BY <1>5, <2>1, <2>5, <3>1
    <3> QED
      BY <2>1, <2>2, <2>5, <3>2
  <2>6. CASE D \subseteq C \cup {t} /\ (\E x \in A : B \subseteq A \ {x}) /\ s - n >= r - m
    <3>1. PICK x \in A : B \subseteq A \ {x}
      BY <2>6
    <3>2. Cardinality(B) <= Cardinality(A \ {x}) /\ Cardinality(D) <= Cardinality(C \cup {t})
      BY <1>5, <1>6, <2>6, <3>1, FS_Subset
    <3>3. b <= a - 1
      BY <1>6, <2>1, <3>1, <3>2
    <3>4. d <= c + 1
      BY <1>5, <2>1, <3>2
    <3> QED
      BY <2>1, <2>2, <2>6, <3>3, <3>4
  <2> QED
    BY <1>11, <2>3, <2>4, <2>5, <2>6
<1>14. s <= MaxRefs + Len(object')
  BY <1>1, <1>8, <1>9, <1>10
<1> QED
  BY <1>7, <1>13, <1>14 DEF Counts

LEMMA CallStep ==
  ASSUME Inv, Quiet, NEW t \in Threads, Calls', Entered',
         \A o \in Made : Tally(t, o) /\ Accounted(o)',
         exit.pc = "up" => \A o \in Made : Alive(o) /\ Untouched(o) => Untouched(o)'
  PROVE  Inv'
<1>1. Types' /\ Made' = Made /\ (\A o \in Made : WellMade(o)')
      /\ Unmade' /\ Unreferenced' /\ Exiting' /\ Looked'
  BY QuietStep DEF Quiet
<1>2. Heap'
  BY <1>1 DEF Heap
<1>3. Counting'
  BY CallCounts
<1>4. ASSUME exit.pc = "up", NEW o \in Made, Alive(o)'
      PROVE  Alive(o)
  <2>1. CASE references'[o] > 0
    <3>1. o \in Objects
      BY MadeIs DEF Inv
    <3>2. references[o] \in Nat /\ references'[o] \in Nat /\ references'[o] <= references[o]
      BY <3>1 DEF Inv, Types, Quiet
    <3> QED
      BY <2>1, <3>2 DEF Alive
  <2>2. CASE \E c \in Made : Owns(c, o)'
    <3>1. Owners(o)' \subseteq Owners(o)
      BY DEF Tally
    <3>2. \A c \in Made : Owns(c, o)' => c \in Owners(o)'
      BY <1>1 DEF Owners
    <3> QED
      BY <2>2, <3>1, <3>2 DEF Alive, Owners
  <2> QED
    BY <1>1, <1>4, <2>1, <2>2 DEF Alive
<1>5. Spared'
  <2>1. exit'.pc = exit.pc
    BY DEF Quiet
  <2> QED
    BY <1>1, <1>4, <2>1 DEF Spared, Inv
<1> QED
  BY <1>1, <1>2, <1>3, <1>5 DEF Inv

LEMMA TopIs ==
  ASSUME Inv, NEW t \in Threads, NEW pc, At(t, pc)
  PROVE  /\ 1 \in DOMAIN stack[t] /\ Top(t) = stack[t][1] /\ stack[t] # <<>>
         /\ Top(t) \in FrameType /\ Top(t).pc = pc /\ stack[t][1].pc = pc
         /\ FrameOK(t, 1)
         /\ Top(t).obj \in Made /\ Top(t).obj \in Objects /\ Top(t).obj \in Nat
         /\ object[Top(t).obj] \in ObjectType
<1>1. Types /\ Calls
  BY DEF Inv
<1>2. stack[t] \in Seq(FrameType) /\ stack[t] # <<>>
  BY <1>1 DEF Types, At
<1>3. 1 \in DOMAIN stack[t] /\ Top(t) = stack[t][1] /\ Top(t) \in FrameType
  BY <1>2 DEF Top
<1>4. FrameOK(t, 1) /\ Top(t).obj \in Made
  BY <1>1, <1>3 DEF Calls, FrameOK
<1> QED
  BY <1>1, <1>2, <1>3, <1>4, MadeIs DEF At

LEMMA GoesChanges ==
  ASSUME Inv, NEW t \in Threads, NEW pc, At(t, pc), NEW g \in FrameType, Goes(t, g),
         g.obj = Top(t).obj, g.op = Top(t).op
  PROVE  Changes(t, g)
<1>1. stack[t] # <<>> /\ Top(t) = stack[t][1] /\ stack \in [Threads -> Seq(FrameType)]
  BY TopIs DEF Inv, Types
<1>2. stack' = [stack EXCEPT ![t] = <<g>> \o Tail(stack[t])]
  BY <1>1 DEF Goes
<1> QED
  BY <1>1, <1>2 DEF Changes

\* Calls that see the same objects and monitors go on.
LEMMA SeesTheSame ==
  ASSUME Inv, NEW t, object' = object, gone' = gone, monitor' = monitor,
         \A o \in Objects : cleanerMonitor[o] # None => cleanerMonitor'[o] = cleanerMonitor[o]
  PROVE  Others(t)
<1> SUFFICES ASSUME NEW u \in Threads, NEW k \in DOMAIN stack[u]
             PROVE  Undisturbed(u, k)
  BY DEF Others
<1>1. FrameOK(u, k) /\ Types /\ u # None
  BY ThreadsAssumption DEF Inv, Calls
<1>2. stack[u][k].obj \in Objects
  BY <1>1, MadeIs DEF FrameOK
<1> QED
  BY <1>1, <1>2 DEF FrameOK, Undisturbed

LEMMA SameHeap ==
  ASSUME Inv, UNCHANGED <<mode, object, memory, failed, all>>, Types'
  PROVE  Made' = Made /\ \A o \in Made : Accounted(o)'
<1>1. Made' = Made
  BY DEF Made
<1> QED
  BY <1>1 DEF Inv, Heap, Accounted

LEMMA OwnersShrink ==
  ASSUME Inv, Quiet, NEW t \in Threads, NEW new, Becomes(t, new), TopKept(t, new), NEW p
  PROVE  Owners(p)' \subseteq Owners(p)
<1>1. Grows /\ Made' = Made
  BY QuietStep DEF Quiet
<1> SUFFICES ASSUME NEW c \in Made, Owns(c, p)'
             PROVE  Owns(c, p)
  BY <1>1 DEF Owners
<1> QED
  BY <1>1, OwnersBecome

LEMMA EnterersShrink ==
  ASSUME Inv, NEW t \in Threads, NEW new, Becomes(t, new), \A f \in new : f.pc # "enter", NEW p
  PROVE  Enterers(p)' \subseteq Enterers(p) \ {t}
<1>1. /\ \A u \in Threads \ {t} : u \in Enterers(p)' <=> u \in Enterers(p)
      /\ t \in Enterers(p)' <=> \E f \in new : f.obj = p /\ f.pc = "enter"
  BY EnterersBecome
<1>2. Enterers(p)' \subseteq Threads
  BY DEF Enterers
<1> QED
  BY <1>1, <1>2

LEMMA BeginStep ==
  ASSUME Inv, NEW t \in Threads, NEW o \in Made, NEW op \in Ops, Idle(t),
         stack' = [stack EXCEPT ![t] = <<Frame(o, op)>>],
         UNCHANGED <<mode, heapVars, monitor, cleanerMonitor, all, gone, rmm>>,
         collected' \subseteq collected,
         exit' \in [pc : {"up", "both", "alone"}, todo : SUBSET Made], exit'.pc = exit.pc,
         exit'.todo \subseteq exit.todo,
         references' \in [Objects -> Nat], \A p \in Objects : references'[p] <= references[p],
         op = "close" => references[o] > 0 /\ references'[o] = references[o] - 1,
         op = "sweep" => t = Cleaner /\ o \in gone,
         op = "exit" => t = Hook /\ exit.pc # "up"
  PROVE  Inv'
<1>0. PICK h : h = Frame(o, op)
  OBVIOUS
<1>1. Types /\ Unreferenced /\ Exiting /\ Counting
  BY DEF Inv
<1>2. /\ UNCHANGED <<mode, object, memory, failed, monitor, cleanerMonitor, all, gone, rmm>>
      /\ Made' = Made
  BY DEF heapVars, Made
<1>3. Made \subseteq Objects /\ Len(object) \in Nat /\ o \in Nat /\ Objects \subseteq Nat
  BY <1>1, MadeIs
<1>4. /\ h \in FrameType /\ h.obj = o /\ h.op = op /\ h.pc = (IF op = "close" THEN "enter" ELSE "clean")
      /\ h.next = 1 /\ ~h.cleaned /\ ~h.threw
  BY <1>0, <1>3 DEF Frame, FrameType, Ops, Pcs
<1>5. Begins(t, h)
  BY <1>0, <1>4 DEF Begins, Idle
<1>6. /\ stack' \in [Threads -> Seq(FrameType)] /\ DOMAIN stack[t] = {} /\ stack'[t][1] = h
  BY <1>5, BeginsFrames
<1>7. Types'
  BY <1>1, <1>2, <1>6 DEF Types
<1>8. Quiet
  <2>1. Grows
    BY <1>2, <1>3 DEF Grows
  <2> QED
    BY <1>2, <1>7, <2>1 DEF Quiet
<1>9. Others(t)
  BY <1>2, SeesTheSame
<1>10. FrameOK(t, 1)'
  <2>1. op = "close" => o \notin gone
    <3>1. references[o] \in Nat
      BY <1>1, <1>3 DEF Types
    <3> QED
      BY <1>1, <3>1 DEF Unreferenced
  <2>2. op = "close" \/ op = "sweep" \/ op = "exit"
    BY DEF Ops
  <2> QED
    BY <1>2, <1>4, <1>6, <2>1, <2>2 DEF FrameOK
<1>11. Calls' /\ Entered'
  BY <1>2, <1>5, <1>7, <1>8, <1>9, <1>10, BeginsCalls DEF Quiet
<1>12. Becomes(t, {h}) /\ TopKept(t, {h})
  BY <1>5, <1>6, BeginsBecomes DEF TopKept
<1>13. ASSUME NEW p \in Made
       PROVE  Tally(t, p)
  <2>1. Owners(p)' \subseteq Owners(p)
    BY <1>8, <1>12, OwnersShrink
  <2>2. /\ \A u \in Threads \ {t} : u \in Enterers(p)' <=> u \in Enterers(p)
        /\ t \in Enterers(p)' <=> \E f \in {h} : f.obj = p /\ f.pc = "enter"
    BY <1>12, EnterersBecome
  <2>3. Enterers(p)' \subseteq Threads
    BY DEF Enterers
  <2>4. p \in Objects /\ references[p] \in Nat /\ references'[p] \in Nat /\ references'[p] <= references[p]
        /\ object[p].refCount \in Int
    BY <1>1, <1>3, MadeIs DEF Types
  <2>5. CASE p = o /\ op = "close"
    <3>1. Enterers(p)' \subseteq Enterers(p) \cup {t}
      BY <2>2, <2>3
    <3> QED
      BY <1>2, <2>1, <2>4, <2>5, <3>1 DEF Tally
  <2>6. CASE ~(p = o /\ op = "close")
    <3>1. Enterers(p)' \subseteq Enterers(p)
      BY <1>4, <2>2, <2>3, <2>6
    <3> QED
      BY <1>2, <2>1, <2>4, <3>1 DEF Tally
  <2> QED
    BY <2>5, <2>6
<1>14. ASSUME exit.pc = "up", NEW p \in Made, Alive(p), Untouched(p)
       PROVE  Untouched(p)'
  <2>1. ~(p = o /\ op = "sweep")
    <3> SUFFICES ASSUME p \in gone
                 PROVE  FALSE
      OBVIOUS
    <3> QED
      BY <1>1, <1>14 DEF Unreferenced, Alive, Owns, Parents
  <2>2. ~Working(p)'
    BY <1>4, <1>12, <1>14, <2>1, WorkingBecomes DEF Untouched, Ops
  <2> QED
    BY <1>2, <1>14, <2>2 DEF Untouched
<1>15. \A p \in Made : Accounted(p)'
  BY <1>2, <1>7, SameHeap
<1> QED
  BY <1>8, <1>11, <1>13, <1>14, <1>15, CallStep

LEMMA CloseStep ==
  ASSUME Inv, NEW t \in Threads, NEW o \in Made, Close(t, o)
  PROVE  Inv'
<1>1. Types
  BY DEF Inv
<1>2. /\ Idle(t) /\ references[o] > 0 /\ references' = [references EXCEPT ![o] = @ - 1]
      /\ stack' = [stack EXCEPT ![t] = <<Frame(o, "close")>>]
      /\ UNCHANGED <<mode, heapVars, monitor, cleanerMonitor, all, gone, collected, exit, rmm>>
  BY DEF Close, HasRef, gcVars
<1>3. o \in Objects /\ references \in [Objects -> Nat]
  BY <1>1, MadeIs DEF Types
<1>4. /\ references' \in [Objects -> Nat] /\ (\A p \in Objects : references'[p] <= references[p])
      /\ references'[o] = references[o] - 1
  BY <1>2, <1>3
<1>5. exit \in [pc : {"up", "both", "alone"}, todo : SUBSET Made]
  BY <1>1 DEF Types
<1>6. "close" \in Ops
  BY DEF Ops
<1> QED
  BY <1>2, <1>4, <1>5, <1>6, BeginStep

LEMMA SweepStep ==
  ASSUME Inv, NEW o \in Objects, Sweep(o)
  PROVE  Inv'
<1>1. Types
  BY DEF Inv
<1>2. /\ Idle(Cleaner) /\ o \in collected /\ collected' \subseteq collected
      /\ stack' = [stack EXCEPT ![Cleaner] = <<Frame(o, "sweep")>>]
      /\ UNCHANGED <<mode, heapVars, references, monitor, cleanerMonitor, all, gone, exit, rmm>>
  BY DEF Sweep
<1>3. o \in gone /\ o \in Made
  BY <1>1, <1>2 DEF Types
<1>4. references' \in [Objects -> Nat] /\ \A p \in Objects : references'[p] <= references[p]
  BY <1>1, <1>2, ReferencesTyped
<1>5. exit' \in [pc : {"up", "both", "alone"}, todo : SUBSET Made] /\ exit'.pc = exit.pc
  BY <1>1, <1>2 DEF Types
<1>6. Cleaner \in Threads /\ "sweep" \in Ops
  BY DEF Threads, Ops
<1> QED
  BY <1>2, <1>3, <1>4, <1>5, <1>6, BeginStep

LEMMA CleanAtExitStep ==
  ASSUME Inv, NEW o \in Objects, CleanAtExit(o)
  PROVE  Inv'
<1>1. Types /\ Exiting
  BY DEF Inv
<1>2. /\ Idle(Hook) /\ o \in exit.todo /\ exit' = [exit EXCEPT !.todo = @ \ {o}]
      /\ stack' = [stack EXCEPT ![Hook] = <<Frame(o, "exit")>>]
      /\ UNCHANGED <<mode, heapVars, references, monitor, cleanerMonitor, all, gone, collected, rmm>>
  BY DEF CleanAtExit, gcVars
<1>3. o \in Made /\ exit.pc # "up"
  BY <1>1, <1>2 DEF Types, Exiting
<1>4. references' \in [Objects -> Nat] /\ \A p \in Objects : references'[p] <= references[p]
  BY <1>1, <1>2, ReferencesTyped
<1>5. /\ exit' \in [pc : {"up", "both", "alone"}, todo : SUBSET Made] /\ exit'.pc = exit.pc
      /\ exit'.todo \subseteq exit.todo
  BY <1>1, <1>2 DEF Types
<1>6. Hook \in Threads /\ "exit" \in Ops
  BY DEF Threads, Ops
<1> QED
  BY <1>2, <1>3, <1>4, <1>5, <1>6, BeginStep

LEMMA EnterCleanStep ==
  ASSUME Inv, NEW t \in Threads, EnterClean(t)
  PROVE  Inv'
<1>o. PICK o : o = Top(t).obj
  OBVIOUS
<1>g. PICK g : g = [Top(t) EXCEPT !.pc = IF object[o].native THEN "free"
                                      ELSE IF object[o].owning THEN "parents" ELSE "leave"]
  OBVIOUS
<1>1. Types
  BY DEF Inv
<1>2. /\ At(t, "clean") /\ Goes(t, g)
      /\ IF object[o].kind = "mmap" THEN UNCHANGED cleanerMonitor
         ELSE cleanerMonitor[o] = None /\ cleanerMonitor' = [cleanerMonitor EXCEPT ![o] = t]
      /\ UNCHANGED <<mode, heapVars, references, monitor, gcVars, exit, rmm>>
  BY <1>o, <1>g DEF EnterClean
<1>3. /\ 1 \in DOMAIN stack[t] /\ Top(t) = stack[t][1] /\ Top(t) \in FrameType /\ stack[t][1].pc = "clean"
      /\ FrameOK(t, 1) /\ o \in Made /\ o \in Objects /\ o \in Nat /\ object[o] \in ObjectType
  BY <1>o, <1>2, TopIs
<1>4. /\ g \in FrameType /\ g.obj = o /\ g.op = Top(t).op /\ g.next = Top(t).next
      /\ g.cleaned = Top(t).cleaned /\ g.threw = Top(t).threw
      /\ g.pc = IF object[o].native THEN "free" ELSE IF object[o].owning THEN "parents" ELSE "leave"
  <2>1. PICK pc \in Pcs : pc = IF object[o].native THEN "free" ELSE IF object[o].owning THEN "parents" ELSE "leave"
    BY DEF Pcs
  <2>2. g = [Top(t) EXCEPT !.pc = pc]
    BY <1>g, <2>1, Zenon
  <2>3. g \in FrameType /\ g.pc = pc
    BY <1>3, <2>2 DEF FrameType
  <2> QED
    BY <1>o, <1>3, <2>1, <2>2, <2>3 DEF FrameType
<1>5. Changes(t, g)
  BY <1>o, <1>2, <1>4, GoesChanges
<1>6. /\ stack' \in [Threads -> Seq(FrameType)] /\ 1 \in DOMAIN stack'[t] /\ stack'[t][1] = g
  BY <1>5, ChangesFrames
<1>7. /\ UNCHANGED <<mode, object, memory, failed, references, monitor, all, gone, collected, exit, rmm>>
      /\ Made' = Made
  BY <1>2 DEF heapVars, gcVars, Made
<1>8. /\ cleanerMonitor' \in [Objects -> Threads \cup {None}]
      /\ object[o].kind # "mmap" => cleanerMonitor'[o] = t
      /\ \A p \in Objects : cleanerMonitor[p] # None => cleanerMonitor'[p] = cleanerMonitor[p]
  BY <1>1, <1>2, <1>3 DEF Types
<1>9. Types'
  BY <1>1, <1>6, <1>7, <1>8 DEF Types
<1>10. Made \subseteq Objects /\ Len(object) \in Nat
  BY <1>1, MadeIs
<1>11. Quiet
  <2>1. Grows
    BY <1>7, <1>10 DEF Grows
  <2>2. \A p \in Objects : references[p] <= references[p]
    BY <1>1, ReferencesTyped
  <2> QED
    BY <1>7, <1>9, <2>1, <2>2 DEF Quiet
<1>12. Others(t)
  BY <1>7, <1>8, SeesTheSame
<1>13. FrameOK(t, 1)'
  <2>1. object[o].owning => 1 \in 1 .. Len(object[o].parents) + 1
    BY <1>3 DEF ObjectType
  <2> QED
    BY <1>o, <1>3, <1>4, <1>6, <1>7, <1>8, <2>1 DEF FrameOK
<1>14. Calls' /\ Entered'
  <2>1. g.pc # "enter"
    BY <1>4
  <2> QED
    BY <1>5, <1>7, <1>9, <1>11, <1>12, <1>13, <2>1, ChangesCalls DEF Quiet
<1>15. Becomes(t, {g}) /\ TopKept(t, {g})
  BY <1>3, <1>5, ChangesBecomes DEF TopKept
<1>16. ASSUME NEW p \in Made
       PROVE  Tally(t, p)
  <2>1. Owners(p)' \subseteq Owners(p)
    BY <1>11, <1>15, OwnersShrink
  <2>2. Enterers(p)' \subseteq Enterers(p)
    <3>1. \A f \in {g} : f.pc # "enter"
      BY <1>4
    <3> QED
      BY <1>15, <3>1, EnterersShrink
  <2>3. references[p] \in Nat /\ object[p].refCount \in Int
    BY <1>1, <1>10, MadeIs DEF Types
  <2> QED
    BY <1>7, <2>1, <2>2, <2>3 DEF Tally
<1>17. ASSUME NEW p \in Made, Untouched(p)
       PROVE  Untouched(p)'
  <2>1. Working(o)
    BY <1>o, <1>3 DEF Working
  <2>2. ~Working(p)'
    <3> SUFFICES ASSUME Working(p)'
                 PROVE  FALSE
      OBVIOUS
    <3>1. Working(p) \/ \E f \in {g} : f.obj = p /\ f.pc \in {"clean", "free", "parents"}
      BY <1>15, WorkingBecomes
    <3> QED
      BY <1>4, <1>17, <2>1, <3>1 DEF Untouched
  <2> QED
    BY <1>7, <1>17, <2>2 DEF Untouched
<1>18. \A p \in Made : Accounted(p)'
  BY <1>7, <1>9, SameHeap
<1> QED
  BY <1>11, <1>14, <1>16, <1>17, <1>18, CallStep

LEMMA CleanedStep ==
  ASSUME Inv, NEW t \in Threads, NEW pc \in {"free", "parents"}, At(t, pc),
         NEW o, o = Top(t).obj, NEW r \in ObjectType, object' = [object EXCEPT ![o] = r],
         r.kind = object[o].kind, r.parents = object[o].parents, r.refCount = object[o].refCount,
         r.backing = object[o].backing, r.native => object[o].native, r.owning => object[o].owning,
         pc = "parents" => ~r.owning,
         NEW g \in FrameType, Goes(t, g), g.obj = o, g.op = Top(t).op, g.pc \in {"parents", "leave"},
         memory' \in [Objects -> {"none", "live", "freed", "twice"}],
         \A p \in Objects \ {o} : memory'[p] = memory[p],
         memory'[o] = "live" => memory[o] = "live",
         failed \subseteq failed', failed' \subseteq failed \cup {o},
         UNCHANGED <<mode, references, monitor, cleanerMonitor, gcVars, exit, rmm>>,
         Accounted(o)', FrameOK(t, 1)'
  PROVE  Inv'
<1>1. Types /\ Heap
  BY DEF Inv
<1>2. /\ 1 \in DOMAIN stack[t] /\ Top(t) = stack[t][1] /\ stack[t][1].pc = pc
      /\ FrameOK(t, 1) /\ o \in Made /\ o \in Objects /\ o \in Nat
  BY TopIs
<1>3. Changes(t, g)
  BY GoesChanges
<1>4. /\ stack' \in [Threads -> Seq(FrameType)] /\ 1 \in DOMAIN stack'[t] /\ stack'[t][1] = g
  BY <1>3, ChangesFrames
<1>5. /\ object' \in Seq(ObjectType) /\ Len(object') = Len(object) /\ object'[o] = r
      /\ \A p \in Made \ {o} : object'[p] = object[p]
  BY <1>1, <1>2, Updated
<1>6. Made' = Made
  BY <1>1, <1>5, MadeIs DEF Made
<1>7. UNCHANGED <<mode, references, monitor, cleanerMonitor, all, gone, collected, exit, rmm>>
  BY DEF gcVars
<1>8. failed' \subseteq Objects
  BY <1>1, <1>2 DEF Types
<1>9. Types'
  BY <1>1, <1>4, <1>5, <1>6, <1>7, <1>8 DEF Types
<1>10. Made \subseteq Objects /\ Len(object) \in Nat
  BY <1>1, MadeIs
<1>11. Grows
  BY <1>5, <1>7, <1>10 DEF Grows
<1>12. Quiet
  <2>1. \A p \in Objects : references[p] <= references[p]
    BY <1>1, ReferencesTyped
  <2>2. \A p \in Objects : memory'[p] = "live" => memory[p] = "live"
    OBVIOUS
  <2>3. \A p \in Objects : p \notin Made => memory'[p] = memory[p]
    BY <1>2
  <2> QED
    BY <1>5, <1>7, <1>9, <1>11, <2>1, <2>2, <2>3 DEF Quiet
<1>13. Others(t)
  <2> SUFFICES ASSUME NEW u \in Threads, NEW k \in DOMAIN stack[u], u # t \/ k # 1
               PROVE  Undisturbed(u, k)
    BY DEF Others
  <2>1. FrameOK(u, k) /\ u # None /\ stack[u][k].obj \in Made
    BY ThreadsAssumption DEF Inv, Calls, FrameOK
  <2>2. object'[stack[u][k].obj].refCount = object[stack[u][k].obj].refCount
    BY <1>5, <2>1
  <2>3. CASE stack[u][k].obj # o
    BY <1>5, <1>7, <2>1, <2>2, <2>3 DEF FrameOK, Undisturbed
  <2>4. CASE stack[u][k].obj = o
    <3>1. PICK j \in DOMAIN stack[t] : j = 1
      BY <1>2
    <3>2. stack[u][k].obj = stack[t][j].obj /\ (u # t \/ k # j) /\ stack[t][j].pc = pc
      BY <1>2, <2>4, <3>1
    <3>3. stack[u][k].pc \in {"free", "parents"} =>
            /\ object[o].kind = "mmap" /\ mode.debug /\ stack[u][k].pc = "free"
      BY <1>2, <3>1, <3>2, Alone
    <3> QED
      BY <1>7, <2>1, <2>2, <2>4, <3>3 DEF FrameOK, Undisturbed
  <2> QED
    BY <2>3, <2>4
<1>14. Calls' /\ Entered'
  BY <1>3, <1>7, <1>9, <1>11, <1>13, ChangesCalls
<1>15. Becomes(t, {g}) /\ TopKept(t, {g})
  BY <1>2, <1>3, <1>5, ChangesBecomes DEF TopKept
<1>16. ASSUME NEW p \in Made
       PROVE  Tally(t, p)
  <2>1. Owners(p)' \subseteq Owners(p)
    BY <1>12, <1>15, OwnersShrink
  <2>2. Enterers(p)' \subseteq Enterers(p)
    BY <1>15, EnterersShrink
  <2>3. references[p] \in Nat /\ object[p].refCount \in Int
    BY <1>1, <1>10, MadeIs DEF Types
  <2>4. object'[p].refCount = object[p].refCount
    BY <1>5
  <2> QED
    BY <1>7, <2>1, <2>2, <2>3, <2>4 DEF Tally
<1>17. ASSUME NEW p \in Made, Untouched(p)
       PROVE  Untouched(p)'
  <2>1. Working(o)
    BY <1>2 DEF Working
  <2>2. p # o
    BY <1>17, <2>1 DEF Untouched
  <2>3. ~Working(p)'
    <3> SUFFICES ASSUME Working(p)'
                 PROVE  FALSE
      OBVIOUS
    <3>1. Working(p) \/ \E f \in {g} : f.obj = p /\ f.pc \in {"clean", "free", "parents"}
      BY <1>15, WorkingBecomes
    <3> QED
      BY <1>17, <2>2, <3>1 DEF Untouched
  <2> QED
    BY <1>5, <1>17, <2>2, <2>3 DEF Untouched
<1>18. ASSUME NEW p \in Made
       PROVE  Accounted(p)'
  <2>1. CASE p = o
    BY <2>1
  <2>2. CASE p # o
    <3>1. object'[p] = object[p] /\ memory'[p] = memory[p] /\ all' = all /\ Accounted(p)
      BY <1>1, <1>5, <1>7, <1>10, <2>2 DEF Heap
    <3> QED
      BY <3>1 DEF Accounted
  <2> QED
    BY <2>1, <2>2
<1> QED
  BY <1>12, <1>14, <1>16, <1>17, <1>18, CallStep

LEMMA FreeNativeStep ==
  ASSUME Inv, NEW t \in Threads, FreeNative(t)
  PROVE  Inv'
<1>o. PICK o : o = Top(t).obj
  OBVIOUS
<1>g. PICK g : g = [Top(t) EXCEPT !.pc = IF object[o].owning THEN "parents" ELSE "leave", !.cleaned = TRUE]
  OBVIOUS
<1>r. PICK r : r = [object[o] EXCEPT !.native = FALSE]
  OBVIOUS
<1>1. Types /\ Heap
  BY DEF Inv
<1>2. /\ At(t, "free") /\ Goes(t, g) /\ memory' = Freed(o) /\ object' = [object EXCEPT ![o].native = FALSE]
      /\ UNCHANGED <<mode, failed, references, monitor, cleanerMonitor, gcVars, exit, rmm>>
  BY <1>o, <1>g DEF FreeNative
<1>3. /\ 1 \in DOMAIN stack[t] /\ Top(t) = stack[t][1] /\ Top(t) \in FrameType /\ stack[t][1].pc = "free"
      /\ FrameOK(t, 1) /\ o \in Made /\ o \in Objects /\ o \in Nat /\ object[o] \in ObjectType
  BY <1>o, <1>2, TopIs
<1>4. /\ g \in FrameType /\ g.obj = o /\ g.op = Top(t).op /\ g.next = Top(t).next /\ g.cleaned
      /\ g.threw = Top(t).threw /\ g.pc = IF object[o].owning THEN "parents" ELSE "leave"
  <2>1. PICK pc \in Pcs : pc = IF object[o].owning THEN "parents" ELSE "leave"
    BY DEF Pcs
  <2>2. g = [Top(t) EXCEPT !.pc = pc, !.cleaned = TRUE]
    BY <1>g, <2>1, Zenon
  <2>3. g \in FrameType /\ g.pc = pc
    BY <1>3, <2>2 DEF FrameType
  <2> QED
    BY <1>o, <1>3, <2>1, <2>2, <2>3 DEF FrameType
<1>5. /\ r \in ObjectType /\ object' = [object EXCEPT ![o] = r]
      /\ r.kind = object[o].kind /\ r.parents = object[o].parents /\ r.refCount = object[o].refCount
      /\ r.backing = object[o].backing /\ ~r.native /\ r.owning = object[o].owning
  BY <1>r, <1>2, <1>3 DEF ObjectType
<1>6. /\ memory' \in [Objects -> {"none", "live", "freed", "twice"}]
      /\ \A p \in Objects \ {o} : memory'[p] = memory[p]
      /\ memory'[o] \in {"freed", "twice"}
  BY <1>1, <1>2, <1>3 DEF Freed, Types
<1>7. object'[o] = r /\ all' = all /\ exit' = exit /\ gone' = gone
  BY <1>1, <1>2, <1>3, <1>5, Updated DEF gcVars
<1>8. Changes(t, g)
  BY <1>o, <1>2, <1>4, GoesChanges
<1>9. 1 \in DOMAIN stack'[t] /\ stack'[t][1] = g
  BY <1>8, ChangesFrames
<1>10. Accounted(o)'
  <2>1. Accounted(o) /\ WellMade(o)
    BY <1>1, <1>3 DEF Heap
  <2>2. object[o].kind # "slice"
    BY <1>o, <1>3, <2>1 DEF Accounted, FrameOK
  <2> QED
    BY <1>2, <1>5, <1>6, <1>7, <2>1, <2>2 DEF Accounted
<1>11. FrameOK(t, 1)'
  <2>1. object[o].owning => 1 \in 1 .. Len(object[o].parents) + 1
    BY <1>3 DEF ObjectType
  <2>2. o \in Made'
    BY <1>3, <1>5, <1>1, Updated, MadeIs DEF Made
  <2> QED
    BY <1>o, <1>2, <1>3, <1>4, <1>5, <1>7, <1>9, <2>1, <2>2 DEF FrameOK
<1> QED
  BY <1>o, <1>2, <1>3, <1>4, <1>5, <1>6, <1>10, <1>11, CleanedStep

LEMMA FreeFailsStep ==
  ASSUME Inv, NEW t \in Threads, FreeFails(t)
  PROVE  Inv'
<1>o. PICK o : o = Top(t).obj
  OBVIOUS
<1>g. PICK g : g = [Top(t) EXCEPT !.pc = IF object[o].owning THEN "parents" ELSE "leave", !.threw = TRUE]
  OBVIOUS
<1>r. PICK r : r = [object[o] EXCEPT !.native = (object[o].kind = "rmm")]
  OBVIOUS
<1>1. Types /\ Heap
  BY DEF Inv
<1>2. /\ At(t, "free") /\ Goes(t, g) /\ failed' = failed \cup {o}
      /\ object' = [object EXCEPT ![o].native = (object[o].kind = "rmm")]
      /\ UNCHANGED <<mode, memory, references, monitor, cleanerMonitor, gcVars, exit, rmm>>
  BY <1>o, <1>g DEF FreeFails
<1>3. /\ 1 \in DOMAIN stack[t] /\ Top(t) = stack[t][1] /\ Top(t) \in FrameType /\ stack[t][1].pc = "free"
      /\ FrameOK(t, 1) /\ o \in Made /\ o \in Objects /\ o \in Nat /\ object[o] \in ObjectType
  BY <1>o, <1>2, TopIs
<1>4. /\ g \in FrameType /\ g.obj = o /\ g.op = Top(t).op /\ g.next = Top(t).next /\ g.threw
      /\ g.pc = IF object[o].owning THEN "parents" ELSE "leave"
  <2>1. PICK pc \in Pcs : pc = IF object[o].owning THEN "parents" ELSE "leave"
    BY DEF Pcs
  <2>2. g = [Top(t) EXCEPT !.pc = pc, !.threw = TRUE]
    BY <1>g, <2>1, Zenon
  <2>3. g \in FrameType /\ g.pc = pc
    BY <1>3, <2>2 DEF FrameType
  <2> QED
    BY <1>o, <1>3, <2>1, <2>2, <2>3 DEF FrameType
<1>5. /\ r \in ObjectType /\ object' = [object EXCEPT ![o] = r]
      /\ r.kind = object[o].kind /\ r.parents = object[o].parents /\ r.refCount = object[o].refCount
      /\ r.backing = object[o].backing /\ r.native = (object[o].kind = "rmm")
      /\ r.owning = object[o].owning
  BY <1>r, <1>2, <1>3 DEF ObjectType
<1>6. object[o].kind # "mmap" => object[o].native
  BY <1>o, <1>3 DEF FrameOK
<1>7. object'[o] = r /\ all' = all /\ exit' = exit /\ gone' = gone
  BY <1>1, <1>2, <1>3, <1>5, Updated DEF gcVars
<1>8. Changes(t, g)
  BY <1>o, <1>2, <1>4, GoesChanges
<1>9. 1 \in DOMAIN stack'[t] /\ stack'[t][1] = g
  BY <1>8, ChangesFrames
<1>10. Accounted(o)'
  <2>1. Accounted(o)
    BY <1>1, <1>3 DEF Heap
  <2> QED
    BY <1>2, <1>5, <1>6, <1>7, <2>1 DEF Accounted
<1>11. FrameOK(t, 1)'
  <2>1. object[o].owning => 1 \in 1 .. Len(object[o].parents) + 1
    BY <1>3 DEF ObjectType
  <2>2. o \in Made'
    BY <1>3, <1>5, <1>1, Updated, MadeIs DEF Made
  <2> QED
    BY <1>o, <1>2, <1>3, <1>4, <1>5, <1>7, <1>9, <2>1, <2>2 DEF FrameOK
<1>12. memory \in [Objects -> {"none", "live", "freed", "twice"}]
  BY <1>1 DEF Types
<1> QED
  BY <1>o, <1>2, <1>3, <1>4, <1>5, <1>6, <1>10, <1>11, <1>12, CleanedStep

LEMMA DisownStep ==
  ASSUME Inv, NEW t \in Threads, Disown(t)
  PROVE  Inv'
<1>o. PICK o : o = Top(t).obj
  OBVIOUS
<1>g. PICK g : g = [Top(t) EXCEPT !.pc = "leave", !.cleaned = TRUE]
  OBVIOUS
<1>r. PICK r : r = [object[o] EXCEPT !.owning = FALSE]
  OBVIOUS
<1>1. Types /\ Heap
  BY DEF Inv
<1>2. /\ At(t, "parents") /\ Goes(t, g) /\ object' = [object EXCEPT ![o].owning = FALSE]
      /\ UNCHANGED <<mode, memory, failed, references, monitor, cleanerMonitor, gcVars, exit, rmm>>
  BY <1>o, <1>g DEF Disown
<1>3. /\ 1 \in DOMAIN stack[t] /\ Top(t) = stack[t][1] /\ Top(t) \in FrameType /\ stack[t][1].pc = "parents"
      /\ FrameOK(t, 1) /\ o \in Made /\ o \in Objects /\ o \in Nat /\ object[o] \in ObjectType
  BY <1>o, <1>2, TopIs
<1>4. /\ g \in FrameType /\ g.obj = o /\ g.op = Top(t).op /\ g.cleaned /\ g.threw = Top(t).threw
      /\ g.pc = "leave"
  BY <1>o, <1>g, <1>3 DEF FrameType, Pcs
<1>5. /\ r \in ObjectType /\ object' = [object EXCEPT ![o] = r]
      /\ r.kind = object[o].kind /\ r.parents = object[o].parents /\ r.refCount = object[o].refCount
      /\ r.backing = object[o].backing /\ r.native = object[o].native /\ ~r.owning
  BY <1>r, <1>2, <1>3 DEF ObjectType
<1>7. object'[o] = r /\ all' = all /\ exit' = exit /\ gone' = gone
  BY <1>1, <1>2, <1>3, <1>5, Updated DEF gcVars
<1>8. Changes(t, g)
  BY <1>o, <1>2, <1>4, GoesChanges
<1>9. 1 \in DOMAIN stack'[t] /\ stack'[t][1] = g
  BY <1>8, ChangesFrames
<1>10. Accounted(o)'
  <2>1. Accounted(o)
    BY <1>1, <1>3 DEF Heap
  <2> QED
    BY <1>2, <1>5, <1>7, <2>1 DEF Accounted
<1>11. FrameOK(t, 1)'
  <2>2. o \in Made'
    BY <1>3, <1>5, <1>1, Updated, MadeIs DEF Made
  <2> QED
    BY <1>o, <1>2, <1>3, <1>4, <1>5, <1>7, <1>9, <2>2 DEF FrameOK
<1>12. memory \in [Objects -> {"none", "live", "freed", "twice"}]
  BY <1>1 DEF Types
<1> QED
  BY <1>o, <1>2, <1>3, <1>4, <1>5, <1>10, <1>11, <1>12, CleanedStep

LEMMA EnterCloseStep ==
  ASSUME Inv, NEW t \in Threads, EnterClose(t)
  PROVE  Inv'
<1>o. PICK o : o = Top(t).obj
  OBVIOUS
<1>g. PICK g : g = [Top(t) EXCEPT !.pc = IF object[o].refCount = 1 THEN "clean" ELSE "leave",
                                  !.threw = object[o].refCount < 1]
  OBVIOUS
<1>1. Types /\ Heap /\ Counting
  BY DEF Inv
<1>2. /\ At(t, "enter") /\ Goes(t, g) /\ monitor[o] = None /\ object' = Counted(o, -1)
      /\ monitor' = [monitor EXCEPT ![o] = t]
      /\ UNCHANGED <<mode, memory, failed, references, cleanerMonitor, gcVars, exit, rmm>>
  BY <1>o, <1>g DEF EnterClose
<1>3. /\ 1 \in DOMAIN stack[t] /\ Top(t) = stack[t][1] /\ Top(t) \in FrameType /\ stack[t][1].pc = "enter"
      /\ FrameOK(t, 1) /\ o \in Made /\ o \in Objects /\ o \in Nat /\ object[o] \in ObjectType
  BY <1>o, <1>2, TopIs
<1>4. t \in Enterers(o)
  BY <1>o, <1>3 DEF Enterers, Entering
<1>5. PICK n \in Int : n = object[o].refCount /\ n >= 1 /\ (n = 1 => ~Alive(o))
  <2>1. object[o].refCount \in Int /\ object[o].refCount >= 1 /\ references[o] \in Nat
    BY <1>3, <1>4, HeldIsCounted
  <2>2. Counts(o) /\ IsFiniteSet(Owners(o)) /\ IsFiniteSet(Enterers(o))
        /\ Cardinality(Owners(o)) \in Nat /\ Cardinality(Enterers(o)) \in Nat
    BY <1>1, <1>3, CountsAreNumbers DEF Counting
  <2>3. Cardinality(Enterers(o)) # 0
    BY <1>4, <2>2, FS_EmptySet
  <2>4. PICK r \in Int, a \in Nat, b \in Nat, c \in Nat :
               r = object[o].refCount /\ a = references[o] /\ b = Cardinality(Owners(o)) /\ c = Cardinality(Enterers(o))
    BY <2>1, <2>2
  <2>5. r >= a + b + c /\ c >= 1
    BY <2>2, <2>3, <2>4 DEF Counts
  <2>6. r = 1 => a = 0 /\ b = 0
    BY <2>5
  <2>7. b = 0 => Owners(o) = {}
    BY <2>2, <2>4, FS_EmptySet
  <2>8. a = 0 /\ Owners(o) = {} => ~Alive(o)
    BY <2>4 DEF Alive, Owners
  <2> QED
    BY <2>1, <2>4, <2>6, <2>7, <2>8
<1>6. /\ g \in FrameType /\ g.obj = o /\ g.op = Top(t).op /\ g.next = Top(t).next
      /\ g.cleaned = Top(t).cleaned /\ ~g.threw /\ g.pc \in {"clean", "leave"}
      /\ g.pc = "clean" => n - 1 = 0 /\ ~Alive(o)
  <2>1. PICK pc \in Pcs : pc = (IF object[o].refCount = 1 THEN "clean" ELSE "leave")
    BY DEF Pcs
  <2>2. (object[o].refCount < 1) = FALSE
    BY <1>5
  <2>3. g = [Top(t) EXCEPT !.pc = pc, !.threw = FALSE]
    BY <1>g, <2>1, <2>2, Zenon
  <2>4. g \in FrameType /\ g.pc = pc /\ ~g.threw
    BY <1>3, <2>3 DEF FrameType
  <2>5. g.obj = o /\ g.op = Top(t).op /\ g.next = Top(t).next /\ g.cleaned = Top(t).cleaned
    BY <1>o, <1>3, <2>3 DEF FrameType
  <2>6. pc = "clean" => n = 1
    BY <1>5, <2>1
  <2>7. pc = "clean" \/ pc = "leave"
    BY <2>1
  <2> QED
    BY <1>5, <2>4, <2>5, <2>6, <2>7
<1>7. /\ object' \in Seq(ObjectType) /\ Len(object') = Len(object)
      /\ \A q \in Made \ {o} : object'[q] = object[q]
      /\ object'[o] = [object[o] EXCEPT !.refCount = n - 1] /\ object'[o].refCount = n - 1
  <2>1. -1 \in Int
    OBVIOUS
  <2>2. /\ Counted(o, -1) \in Seq(ObjectType) /\ Len(Counted(o, -1)) = Len(object)
        /\ \A q \in Made \ {o} : Counted(o, -1)[q] = object[q]
        /\ Counted(o, -1)[o] = [object[o] EXCEPT !.refCount = object[o].refCount + (-1)]
        /\ Counted(o, -1)[o].refCount = object[o].refCount + (-1)
    BY <1>1, <1>3, <2>1, CountedIs, Zenon
  <2>3. object[o].refCount + (-1) = n - 1
    BY <1>5
  <2> QED
    BY <1>2, <2>2, <2>3
<1>8. Made' = Made
  BY <1>1, <1>7, MadeIs DEF Made
<1>9. /\ object'[o].kind = object[o].kind /\ object'[o].parents = object[o].parents
      /\ object'[o].backing = object[o].backing
      /\ object'[o].native = object[o].native /\ object'[o].owning = object[o].owning
  BY <1>3, <1>7 DEF ObjectType
<1>10. /\ monitor' \in [Objects -> Threads \cup {None}] /\ monitor'[o] = t
       /\ \A p \in Objects \ {o} : monitor'[p] = monitor[p]
  BY <1>1, <1>2, <1>3 DEF Types
<1>11. UNCHANGED <<mode, memory, failed, references, cleanerMonitor, all, gone, collected, exit, rmm>>
  BY <1>2 DEF gcVars
<1>12. Changes(t, g)
  BY <1>o, <1>2, <1>6, GoesChanges
<1>13. stack' \in [Threads -> Seq(FrameType)] /\ 1 \in DOMAIN stack'[t] /\ stack'[t][1] = g
  BY <1>12, ChangesFrames
<1>14. Types'
  BY <1>1, <1>7, <1>8, <1>10, <1>11, <1>13 DEF Types
<1>15. Made \subseteq Objects /\ Len(object) \in Nat
  BY <1>1, MadeIs
<1>16. Grows
  <2>1. \A q \in Made :
          /\ object'[q].kind = object[q].kind /\ object'[q].parents = object[q].parents
          /\ object'[q].backing = object[q].backing
          /\ object'[q].native = object[q].native /\ object'[q].owning = object[q].owning
    BY <1>7, <1>9
  <2>2. Len(object) <= Len(object')
    BY <1>7, <1>15
  <2> QED
    BY <1>11, <2>1, <2>2 DEF Grows
<1>17. Quiet
  <2>1. \A p \in Objects : references[p] <= references[p]
    BY <1>1, ReferencesTyped
  <2> QED
    BY <1>7, <1>11, <1>14, <1>16, <2>1 DEF Quiet
<1>18. Others(t)
  <2> SUFFICES ASSUME NEW u \in Threads, NEW k \in DOMAIN stack[u], u # t \/ k # 1
               PROVE  Undisturbed(u, k)
    BY DEF Others
  <2>1. FrameOK(u, k) /\ u # None /\ stack[u][k].obj \in Made /\ stack[u][k].obj \in Objects
    BY <1>15, ThreadsAssumption DEF Inv, Calls, FrameOK
  <2>2. CASE stack[u][k].obj # o
    BY <1>7, <1>10, <1>11, <2>1, <2>2 DEF FrameOK, Undisturbed
  <2>3. CASE stack[u][k].obj = o
    BY <1>2, <1>9, <1>11, <2>1, <2>3 DEF FrameOK, Undisturbed
  <2> QED
    BY <2>2, <2>3
<1>19. FrameOK(t, 1)'
  BY <1>o, <1>3, <1>6, <1>7, <1>8, <1>10, <1>11, <1>13 DEF FrameOK
<1>20. Calls' /\ Entered'
  <2>1. g.pc # "enter" /\ g.op = "close"
    BY <1>o, <1>3, <1>6 DEF FrameOK
  <2>2. \A p \in Objects : monitor'[p] = monitor[p] \/ (g.op = "close" /\ p = g.obj /\ monitor'[p] = t)
    BY <1>6, <1>10, <2>1
  <2> QED
    BY <1>12, <1>14, <1>16, <1>18, <1>19, <2>1, <2>2, ChangesCalls
<1>21. Becomes(t, {g}) /\ TopKept(t, {g})
  BY <1>3, <1>12, ChangesBecomes DEF TopKept
<1>22. ASSUME NEW p \in Made
       PROVE  Tally(t, p)
  <2>1. Owners(p)' \subseteq Owners(p)
    BY <1>17, <1>21, OwnersShrink
  <2>2. Enterers(p)' \subseteq Enterers(p) \ {t}
    <3>1. \A f \in {g} : f.pc # "enter"
      BY <1>6
    <3> QED
      BY <1>21, <3>1, EnterersShrink
  <2>3. references[p] \in Nat /\ object[p].refCount \in Int /\ references' = references
    BY <1>1, <1>11, <1>15, MadeIs DEF Types
  <2>4. CASE p = o
    <3>1. object'[p].refCount = object[p].refCount - 1
      BY <1>5, <1>7, <2>4
    <3> QED
      BY <1>4, <2>1, <2>2, <2>3, <2>4, <3>1 DEF Tally
  <2>5. CASE p # o
    <3>1. object'[p].refCount = object[p].refCount
      BY <1>7, <2>5
    <3> QED
      BY <2>1, <2>2, <2>3, <3>1 DEF Tally
  <2> QED
    BY <2>4, <2>5
<1>23. ASSUME NEW p \in Made, Alive(p), Untouched(p)
       PROVE  Untouched(p)'
  <2>1. ~Working(p)'
    <3> SUFFICES ASSUME Working(p)'
                 PROVE  FALSE
      OBVIOUS
    <3>1. Working(p) \/ \E f \in {g} : f.obj = p /\ f.pc \in {"clean", "free", "parents"}
      BY <1>21, WorkingBecomes
    <3> QED
      BY <1>6, <1>23, <3>1 DEF Untouched
  <2>2. /\ object'[p].kind = object[p].kind /\ object'[p].parents = object[p].parents
        /\ object'[p].native = object[p].native /\ object'[p].owning = object[p].owning
    BY <1>7, <1>9
  <2> QED
    BY <1>23, <2>1, <2>2 DEF Untouched
<1>24. ASSUME NEW p \in Made
       PROVE  Accounted(p)'
  <2>1. /\ object'[p].kind = object[p].kind /\ object'[p].parents = object[p].parents
        /\ object'[p].native = object[p].native /\ object'[p].owning = object[p].owning
    BY <1>7, <1>9
  <2> QED
    BY <1>1, <1>11, <2>1 DEF Heap, Accounted
<1> QED
  BY <1>17, <1>20, <1>22, <1>23, <1>24, CallStep

LEMMA CloseParentStep ==
  ASSUME Inv, NEW t \in Threads, CloseParent(t)
  PROVE  Inv'
<1>o. PICK o : o = Top(t).obj
  OBVIOUS
<1>n. PICK n : n = Top(t).next
  OBVIOUS
<1>p. PICK p : p = object[o].parents[n]
  OBVIOUS
<1>h. PICK h : h = Frame(p, "close")
  OBVIOUS
<1>g. PICK g : g = [Top(t) EXCEPT !.next = n + 1]
  OBVIOUS
<1>1. Types /\ Heap /\ Unreferenced
  BY DEF Inv
<1>2. /\ At(t, "parents") /\ n <= Len(object[o].parents)
      /\ stack' = [stack EXCEPT ![t] = <<h, g>> \o Tail(@)]
      /\ UNCHANGED <<mode, heapVars, references, monitor, cleanerMonitor, gcVars, exit, rmm>>
  <2>1. g = [Top(t) EXCEPT !.next = @ + 1]
    BY <1>g, <1>n
  <2> QED
    BY <1>o, <1>n, <1>p, <1>h, <2>1 DEF CloseParent
<1>3. /\ 1 \in DOMAIN stack[t] /\ Top(t) = stack[t][1] /\ stack[t] # <<>> /\ Top(t) \in FrameType
      /\ stack[t][1].pc = "parents"
      /\ FrameOK(t, 1) /\ o \in Made /\ o \in Objects /\ o \in Nat /\ object[o] \in ObjectType
  BY <1>o, <1>2, TopIs
<1>4. n \in Nat /\ n \in 1 .. Len(object[o].parents) /\ object[o].owning
  <2>1. n \in 1 .. Len(object[o].parents) + 1 /\ object[o].owning
    BY <1>o, <1>n, <1>3 DEF FrameOK
  <2>2. PICK l \in Nat : l = Len(object[o].parents)
    BY <1>3 DEF ObjectType
  <2>3. n \in 1 .. l
    BY <1>2, <2>1, <2>2
  <2> QED
    BY <2>1, <2>2, <2>3
<1>5. n \in DOMAIN object[o].parents /\ p \in Parents(o) /\ p \in 1 .. o - 1 /\ p \in Made /\ p \in Nat /\ p < o
  <2>1. n \in DOMAIN object[o].parents
    BY <1>3, <1>4 DEF ObjectType
  <2>2. p \in Parents(o)
    BY <1>p, <2>1 DEF Parents, Range
  <2>3. p \in 1 .. o - 1
    BY <1>1, <1>3, <2>2 DEF Heap, WellMade
  <2>4. Made = 1 .. Len(object) /\ Len(object) \in Nat
    BY <1>1, MadeIs
  <2>5. p \in Made
    BY <1>3, <2>3, <2>4
  <2> QED
    BY <1>3, <2>1, <2>2, <2>3, <2>5
<1>6. h \in FrameType /\ h.obj = p /\ h.op = "close" /\ h.pc = "enter" /\ h.next = 1 /\ ~h.cleaned /\ ~h.threw
  BY <1>h, <1>5 DEF Frame, FrameType, Ops, Pcs
<1>7. /\ g \in FrameType /\ g.obj = o /\ g.op = Top(t).op /\ g.pc = "parents" /\ g.next = n + 1
      /\ g.threw = Top(t).threw
  BY <1>o, <1>n, <1>g, <1>3, <1>4 DEF FrameType
<1>8. /\ stack[t] \in Seq(FrameType) /\ Len(stack[t]) \in Nat /\ DOMAIN stack[t] = 1 .. Len(stack[t])
  BY <1>1, <1>3, FrameTyped
<1>9. Nests(t, h, g)
  <2>1. stack' = [stack EXCEPT ![t] = <<h, g>> \o Tail(stack[t])]
    BY <1>2
  <2>2. g.op = "close" \/ Len(stack[t]) = 1
    <3>1. PICK l \in Nat : l = Len(stack[t])
      BY <1>8
    <3>2. CASE 2 \in 1 .. l
      <4>1. 2 \in DOMAIN stack[t] \ {1}
        BY <1>8, <3>1, <3>2
      <4> QED
        BY <1>3, <1>7, <4>1, WaitingAtParents
    <3>3. CASE 2 \notin 1 .. l
      <4>1. 1 \in 1 .. l
        BY <1>3, <1>8, <3>1
      <4>2. l = 1
        BY <3>3, <4>1
      <4> QED
        BY <3>1, <4>2
    <3> QED
      BY <3>2, <3>3
  <2> QED
    BY <1>o, <1>3, <1>5, <1>6, <1>7, <2>1, <2>2 DEF Nests
<1>10. /\ stack' \in [Threads -> Seq(FrameType)] /\ stack'[t][1] = h /\ stack'[t][2] = g
  BY <1>9, NestsFrames
<1>11. /\ UNCHANGED <<mode, object, memory, failed, references, monitor, cleanerMonitor, all, gone, collected,
                      exit, rmm>>
       /\ Made' = Made
  BY <1>2 DEF heapVars, gcVars, Made
<1>12. Types'
  BY <1>1, <1>10, <1>11 DEF Types
<1>13. Made \subseteq Objects /\ Len(object) \in Nat
  BY <1>1, MadeIs
<1>14. Quiet
  <2>1. Grows
    BY <1>11, <1>13 DEF Grows
  <2>2. \A q \in Objects : references[q] <= references[q]
    BY <1>1, ReferencesTyped
  <2> QED
    BY <1>11, <1>12, <2>1, <2>2 DEF Quiet
<1>15. Others(t)
  BY <1>11, SeesTheSame
<1>16. FrameOK(t, 1)'
  <2>1. p \notin gone
    BY <1>1, <1>3, <1>4, <1>5 DEF Unreferenced
  <2> QED
    BY <1>5, <1>6, <1>10, <1>11, <2>1 DEF FrameOK
<1>17. FrameOK(t, 2)'
  <2>1. n + 1 \in 1 .. Len(object[o].parents) + 1
    <3>1. PICK l \in Nat : l = Len(object[o].parents)
      BY <1>3 DEF ObjectType
    <3>2. n + 1 \in 1 .. l + 1
      BY <1>4, <3>1
    <3> QED
      BY <3>1, <3>2
  <2> QED
    BY <1>o, <1>3, <1>7, <1>10, <1>11, <2>1 DEF FrameOK
<1>18. Calls' /\ Entered'
  <2>1. Grows
    BY <1>14 DEF Quiet
  <2> QED
    BY <1>9, <1>11, <1>12, <1>15, <1>16, <1>17, <2>1, NestsCalls
<1>19. Becomes(t, {h, g})
  BY <1>9, NestsBecomes
<1>20. TopKept(t, {h, g})
  <2>1. g.next \in Nat /\ stack[t][1].next <= g.next
    BY <1>n, <1>3, <1>4, <1>7
  <2> QED
    BY <1>o, <1>3, <1>7, <2>1 DEF TopKept
<1>21. o \in Owners(p)
  <2> SUFFICES ASSUME NEW u \in Threads, NEW k \in DOMAIN stack[u], stack[u][k].obj = o,
                      stack[u][k].pc = "parents",
                      NEW i \in 1 .. stack[u][k].next - 1, object[o].parents[i] = p
               PROVE  FALSE
    BY <1>3, <1>4, <1>5 DEF Owners, Owns, Parents
  <2>1. u = t /\ k = 1
    <3>1. PICK j \in DOMAIN stack[t] : j = 1
      BY <1>3
    <3>2. stack[u][k].obj = stack[t][j].obj /\ stack[t][j].pc = "parents"
      BY <1>o, <1>3, <3>1
    <3> QED
      BY <3>1, <3>2, Alone
  <2>2. i \in 1 .. n - 1
    BY <1>n, <1>3, <2>1
  <2>3. i \in DOMAIN object[o].parents /\ i # n
    <3>1. PICK l \in Nat : l = Len(object[o].parents) /\ DOMAIN object[o].parents = 1 .. l
      BY <1>3 DEF ObjectType
    <3> QED
      BY <1>4, <2>2, <3>1
  <2> QED
    BY <1>p, <1>1, <1>3, <1>5, <2>3 DEF Heap, WellMade
<1>22. ~Owns(o, p)'
  <2>1. CallBy(t, o, "parents", n + 1)'
    <3>1. \E f \in {h, g} : f.obj = o /\ f.pc = "parents" /\ f.next = n + 1
      BY <1>7
    <3>2. PICK m : m = n + 1
      OBVIOUS
    <3>3. CallBy(t, o, "parents", m)'
      BY <1>19, <3>1, <3>2 DEF Becomes
    <3> QED
      BY <3>2, <3>3
  <2>2. PICK k \in DOMAIN stack'[t] :
               stack'[t][k].obj = o /\ stack'[t][k].pc = "parents" /\ stack'[t][k].next = n + 1
    BY <2>1 DEF CallBy
  <2>3. n \in 1 .. stack'[t][k].next - 1
    BY <1>4, <2>2
  <2> QED
    BY <1>p, <1>11, <2>2, <2>3 DEF Owns
<1>23. ASSUME NEW q \in Made
       PROVE  Tally(t, q)
  <2>1. Owners(q)' \subseteq Owners(q)
    BY <1>14, <1>19, <1>20, OwnersShrink
  <2>2. /\ \A u \in Threads \ {t} : u \in Enterers(q)' <=> u \in Enterers(q)
        /\ t \in Enterers(q)' <=> \E f \in {h, g} : f.obj = q /\ f.pc = "enter"
    BY <1>19, EnterersBecome
  <2>3. Enterers(q)' \subseteq Threads
    BY DEF Enterers
  <2>4. references[q] \in Nat /\ object[q].refCount \in Int
    BY <1>1, <1>13, MadeIs DEF Types
  <2>5. CASE q = p
    <3>1. Enterers(q)' \subseteq Enterers(q) \cup {t}
      BY <2>2, <2>3
    <3>2. o \notin Owners(q)'
      BY <1>22, <2>5 DEF Owners
    <3>3. \E x \in Owners(q) : Owners(q)' \subseteq Owners(q) \ {x}
      BY <1>21, <2>1, <2>5, <3>2
    <3> QED
      BY <1>11, <2>1, <2>4, <3>1, <3>3 DEF Tally
  <2>6. CASE q # p
    <3>1. Enterers(q)' \subseteq Enterers(q)
      BY <1>6, <1>7, <2>2, <2>3, <2>6
    <3> QED
      BY <1>11, <2>1, <2>4, <3>1 DEF Tally
  <2> QED
    BY <2>5, <2>6
<1>24. ASSUME NEW q \in Made, Untouched(q)
       PROVE  Untouched(q)'
  <2>1. Working(o)
    BY <1>o, <1>3 DEF Working
  <2>2. ~Working(q)'
    <3> SUFFICES ASSUME Working(q)'
                 PROVE  FALSE
      OBVIOUS
    <3>1. Working(q) \/ \E f \in {h, g} : f.obj = q /\ f.pc \in {"clean", "free", "parents"}
      BY <1>19, WorkingBecomes
    <3> QED
      BY <1>6, <1>7, <1>24, <2>1, <3>1 DEF Untouched
  <2> QED
    BY <1>11, <1>24, <2>2 DEF Untouched
<1>25. \A q \in Made : Accounted(q)'
  BY <1>11, <1>12, SameHeap
<1> QED
  BY <1>14, <1>18, <1>23, <1>24, <1>25, CallStep

LEMMA LeaveStep ==
  ASSUME Inv, NEW t \in Threads, Leave(t)
  PROVE  Inv'
<1>f. PICK f : f = Top(t)
  OBVIOUS
<1>o. PICK o : o = f.obj
  OBVIOUS
<1>1. Types /\ Heap
  BY DEF Inv
<1>2. /\ At(t, "leave")
      /\ monitor' = IF f.op = "close" THEN [monitor EXCEPT ![o] = None] ELSE monitor
      /\ cleanerMonitor' = [cleanerMonitor EXCEPT ![o] = IF @ = t THEN None ELSE @]
      /\ all' = IF f.op = "sweep" \/ (f.cleaned /\ ~f.threw) THEN all \ {o} ELSE all
      /\ stack' = [stack EXCEPT ![t] =
           IF Tail(stack[t]) = <<>> THEN <<>>
           ELSE <<[Head(Tail(stack[t])) EXCEPT !.threw = @ \/ f.threw]>> \o Tail(Tail(stack[t]))]
      /\ exit' = IF f.op = "exit" /\ f.threw THEN [exit EXCEPT !.todo = {}] ELSE exit
      /\ UNCHANGED <<mode, object, memory, failed, references, collected, gone, rmm>>
  BY <1>f, <1>o DEF Leave, heapVars
<1>3. /\ 1 \in DOMAIN stack[t] /\ f = stack[t][1] /\ stack[t] # <<>> /\ f \in FrameType
      /\ stack[t][1].pc = "leave"
      /\ FrameOK(t, 1) /\ o \in Made /\ o \in Objects /\ o \in Nat
  BY <1>f, <1>o, <1>2, TopIs
<1>4. /\ stack[t] \in Seq(FrameType) /\ DOMAIN stack[t] = 1 .. Len(stack[t])
  BY <1>1, <1>3, FrameTyped
<1>5. PICK l \in Nat \ {0} : l = Len(stack[t])
  BY <1>3, <1>4
<1>6. PICK b \in BOOLEAN : Ends(t, b) /\ (Len(stack[t]) > 1 /\ stack[t][2].threw => b)
  <2>1. CASE l > 1
    <3>1. stack[t][2] \in FrameType /\ Head(Tail(stack[t])) = stack[t][2] /\ Tail(stack[t]) # <<>>
      <4>1. 2 \in 1 .. l /\ stack[t][2] \in FrameType
        BY <1>4, <1>5, <2>1
      <4>2. Head(Tail(stack[t])) = stack[t][2]
        BY <1>4, <1>5, <2>1, <4>1, Popped
      <4>3. Tail(stack[t]) \in Seq(FrameType) /\ Len(Tail(stack[t])) = l - 1 /\ Len(<<>>) = 0 /\ l - 1 > 0
        BY <1>4, <1>5, <2>1
      <4>4. Tail(stack[t]) # <<>>
        <5> SUFFICES ASSUME Tail(stack[t]) = <<>>
                     PROVE  FALSE
          OBVIOUS
        <5>1. l - 1 = 0
          BY <4>3
        <5> QED
          BY <4>3, <5>1
      <4> QED
        BY <4>1, <4>2, <4>4
    <3>2. PICK b \in BOOLEAN : b = (stack[t][2].threw \/ f.threw)
      OBVIOUS
    <3>3. stack' = [stack EXCEPT ![t] = <<[stack[t][2] EXCEPT !.threw = @ \/ f.threw]>> \o Tail(Tail(stack[t]))]
      BY <1>2, <3>1, Zenon
    <3>4. [stack[t][2] EXCEPT !.threw = @ \/ f.threw] = [stack[t][2] EXCEPT !.threw = b]
      BY <3>2, Zenon
    <3>5. stack' = [stack EXCEPT ![t] = <<[stack[t][2] EXCEPT !.threw = b]>> \o Tail(Tail(stack[t]))]
      BY <3>3, <3>4, Zenon
    <3>6. stack' = [stack EXCEPT ![t] =
            IF Len(stack[t]) > 1 THEN <<[stack[t][2] EXCEPT !.threw = b]>> \o Tail(Tail(stack[t])) ELSE <<>>]
      BY <1>5, <2>1, <3>5, Zenon
    <3>7. Ends(t, b)
      BY <1>3, <3>6, Zenon DEF Ends
    <3> QED
      BY <3>2, <3>7
  <2>2. CASE ~(l > 1)
    <3>1. Tail(stack[t]) = <<>>
      BY <1>4, <1>5, <2>2
    <3>2. stack' = [stack EXCEPT ![t] = <<>>]
      BY <1>2, <3>1, Zenon
    <3>3. stack' = [stack EXCEPT ![t] =
            IF Len(stack[t]) > 1 THEN <<[stack[t][2] EXCEPT !.threw = TRUE]>> \o Tail(Tail(stack[t])) ELSE <<>>]
      BY <1>5, <2>2, <3>2, Zenon
    <3>4. Ends(t, TRUE)
      BY <1>3, <3>3, Zenon DEF Ends
    <3> QED
      BY <3>4
  <2> QED
    BY <2>1, <2>2
<1>7. stack' \in [Threads -> Seq(FrameType)]
  BY <1>6, EndsFrames
<1>8. /\ monitor' \in [Objects -> Threads \cup {None}]
      /\ \A p \in Objects : monitor'[p] = monitor[p] \/ monitor'[p] = None
      /\ \A p \in Objects \ {o} : monitor'[p] = monitor[p]
      /\ f.op = "close" => monitor'[o] = None
      /\ f.op # "close" => monitor' = monitor
  BY <1>1, <1>2, <1>3 DEF Types
<1>9. /\ cleanerMonitor' \in [Objects -> Threads \cup {None}]
      /\ \A p \in Objects : cleanerMonitor[p] # t => cleanerMonitor'[p] = cleanerMonitor[p]
      /\ \A p \in Objects \ {o} : cleanerMonitor'[p] = cleanerMonitor[p]
  BY <1>1, <1>2, <1>3 DEF Types
<1>10. /\ all' \subseteq all /\ all \ {o} \subseteq all'
       /\ o \in all \ all' => f.op = "sweep" \/ (f.cleaned /\ ~f.threw)
  BY <1>2
<1>11. /\ exit' \in [pc : {"up", "both", "alone"}, todo : SUBSET Made] /\ exit'.pc = exit.pc
       /\ exit'.todo # {} => exit.todo # {}
  BY <1>1, <1>2 DEF Types
<1>12. Made' = Made
  BY <1>2 DEF Made
<1>13. Types'
  BY <1>1, <1>2, <1>7, <1>8, <1>9, <1>10, <1>11, <1>12 DEF Types
<1>14. Made \subseteq Objects /\ Len(object) \in Nat
  BY <1>1, MadeIs
<1>15. Grows
  BY <1>2, <1>11, <1>14 DEF Grows
<1>16. Quiet
  <2>1. \A q \in Objects : references[q] <= references[q]
    BY <1>1, ReferencesTyped
  <2> QED
    BY <1>2, <1>11, <1>13, <1>14, <1>15, <2>1 DEF Quiet
<1>17. Others(t)
  <2> SUFFICES ASSUME NEW u \in Threads, NEW k \in DOMAIN stack[u], u # t \/ k # 1
               PROVE  Undisturbed(u, k)
    BY DEF Others
  <2>1. FrameOK(u, k) /\ u # None /\ stack[u][k].obj \in Made /\ stack[u][k].obj \in Objects
    BY <1>14, ThreadsAssumption DEF Inv, Calls, FrameOK
  <2>2. CASE stack[u][k].obj # o
    BY <1>2, <1>8, <1>9, <2>1, <2>2 DEF FrameOK, Undisturbed
  <2>3. CASE stack[u][k].obj = o
    <3>1. u # t
      <4> SUFFICES ASSUME u = t
                   PROVE  FALSE
        OBVIOUS
      <4>1. k \in DOMAIN stack[t] \ {1}
        OBVIOUS
      <4>2. stack[t][1].obj < stack[t][k].obj
        BY <4>1, WaitingAtParents
      <4> QED
        BY <1>o, <1>3, <2>3, <4>2
    <3>2. stack[u][k].op = "close" /\ stack[u][k].pc # "enter" => f.op # "close"
      BY <1>o, <1>3, <2>1, <2>3, <3>1 DEF FrameOK
    <3> QED
      BY <1>2, <1>8, <1>9, <2>1, <2>3, <3>1, <3>2 DEF FrameOK, Undisturbed
  <2> QED
    BY <2>2, <2>3
<1>18. Calls' /\ Entered'
  <2>1. stack[t][1].op = "close" => monitor'[stack[t][1].obj] = None
    BY <1>o, <1>3, <1>8
  <2> QED
    BY <1>6, <1>8, <1>13, <1>15, <1>17, <2>1, EndsCalls
<1>19. Becomes(t, {}) /\ TopKept(t, {})
  BY <1>3, <1>6, EndsBecomes DEF TopKept
<1>20. ASSUME NEW q \in Made
       PROVE  Tally(t, q)
  <2>1. Owners(q)' \subseteq Owners(q)
    BY <1>16, <1>19, OwnersShrink
  <2>2. Enterers(q)' \subseteq Enterers(q)
    BY <1>19, EnterersShrink
  <2>3. references[q] \in Nat /\ object[q].refCount \in Int
    BY <1>1, <1>14, MadeIs DEF Types
  <2> QED
    BY <1>2, <2>1, <2>2, <2>3 DEF Tally
<1>21. ASSUME NEW q \in Made, Untouched(q)
       PROVE  Untouched(q)'
  <2>1. ~Working(q)'
    BY <1>19, <1>21, WorkingBecomes DEF Untouched
  <2> QED
    BY <1>2, <1>21, <2>1 DEF Untouched
<1>22. ASSUME NEW q \in Made
       PROVE  Accounted(q)'
  <2>1. Accounted(q)
    BY <1>1 DEF Heap
  <2>2. q \notin all' => ~object[q].owning /\ (~object[q].native \/ q \in failed)
    <3>1. CASE q # o \/ q \notin all
      BY <1>10, <2>1, <3>1 DEF Accounted
    <3>2. CASE q = o /\ q \in all
      BY <1>o, <1>3, <1>10, <3>2 DEF FrameOK
    <3> QED
      BY <3>1, <3>2
  <2> QED
    BY <1>2, <2>1, <2>2 DEF Accounted
<1> QED
  BY <1>16, <1>18, <1>20, <1>21, <1>22, CallStep

(***************************************************************************)
(* The invariant.                                                           *)
(***************************************************************************)
LEMMA InitInv ==
  ASSUME Init
  PROVE  Inv
<1>1. /\ mode \in Modes /\ object = <<>> /\ memory = [o \in Objects |-> "none"]
      /\ failed = {} /\ references = [o \in Objects |-> 0]
      /\ monitor = [o \in Objects |-> None] /\ cleanerMonitor = [o \in Objects |-> None]
      /\ stack = [t \in Threads |-> <<>>] /\ all = {} /\ collected = {} /\ gone = {}
      /\ exit = [pc |-> "up", todo |-> {}] /\ rmm = [pc |-> "up", todo |-> {}]
  BY DEF Init
<1>2. object \in Seq(ObjectType) /\ Len(object) = 0 /\ Made = {}
  BY <1>1 DEF Made
<1>3. mode.objects \in Nat
  BY <1>1, ModesAssumption, BoundsAssumption
<1>4. Types
  <2>1. stack \in [Threads -> Seq(FrameType)]
    BY <1>1
  <2>2. memory \in [Objects -> {"none", "live", "freed", "twice"}]
    BY <1>1
  <2>3. references \in [Objects -> Nat]
    BY <1>1
  <2>4. monitor \in [Objects -> Threads \cup {None}] /\ cleanerMonitor \in [Objects -> Threads \cup {None}]
    BY <1>1
  <2>5. /\ exit \in [pc : {"up", "both", "alone"}, todo : SUBSET Made]
        /\ rmm \in [pc : {"up", "looking", "refused", "down"}, todo : SUBSET Made]
    BY <1>1
  <2>6. Len(object) <= mode.objects
    BY <1>2, <1>3
  <2> QED
    BY <1>1, <1>2, <2>1, <2>2, <2>3, <2>4, <2>5, <2>6 DEF Types
<1>5. Heap /\ Counting /\ Spared /\ Looked /\ Unreferenced
  BY <1>1, <1>2 DEF Heap, Counting, Spared, Looked, Unreferenced
<1>6. Unmade
  BY <1>1 DEF Unmade
<1>7. \A t \in Threads : DOMAIN stack[t] = {}
  BY <1>1
<1>8. Calls
  BY <1>7 DEF Calls, Nested
<1>9. Entered
  BY <1>1 DEF Entered
<1>10. Exiting
  BY <1>1 DEF Exiting
<1> QED
  BY <1>4, <1>5, <1>6, <1>8, <1>9, <1>10 DEF Inv

LEMMA UsersAreThreads ==
  ASSUME Types
  PROVE  mode.users \subseteq Threads
BY ModesAssumption DEF Types, Threads

LEMMA NextInv ==
  ASSUME Inv, [Next]_memVars
  PROVE  Inv'
<1>1. CASE UNCHANGED memVars
  <2>1. UNCHANGED <<mode, heapVars, references, callVars, gcVars, exit, rmm>>
    BY <1>1 DEF memVars, heapVars, callVars, gcVars
  <2>2. references \in [Objects -> Nat] /\ \A p \in Objects : references[p] <= references[p]
    BY ReferencesTyped DEF Inv
  <2>3. Types /\ Unreferenced /\ Exiting /\ Looked
    BY DEF Inv
  <2>4. /\ exit \in [pc : {"up", "both", "alone"}, todo : SUBSET Made]
        /\ rmm \in [pc : {"up", "looking", "refused", "down"}, todo : SUBSET Made]
        /\ gone \subseteq Made /\ collected \subseteq gone
    BY <2>3 DEF Types
  <2>5. Types' /\ Heap' /\ Unmade' /\ Calls' /\ Entered' /\ Counting' /\ Spared' /\ Made' = Made
    BY <2>1, <2>2, <2>4, IdleStep DEF gcVars
  <2>6. Unreferenced' /\ Exiting' /\ Looked'
    BY <2>1, <2>3, <2>5 DEF Unreferenced, Parents, Exiting, Looked, heapVars, gcVars
  <2> QED
    BY <2>5, <2>6 DEF Inv
<1>2. CASE \E t \in mode.users : Call(t)
  <2>1. PICK t \in Threads : Call(t)
    BY <1>2, UsersAreThreads DEF Inv
  <2> QED
    BY <2>1, AllocateStep, SliceStep, ColumnOverStep, IncRefCountStep, ForgetStep, CloseStep,
       ColumnOfStep DEF Call
<1>3. CASE \E t \in Threads : Step(t)
  BY <1>3, EnterCloseStep, EnterCleanStep, FreeNativeStep, FreeFailsStep, CloseParentStep, DisownStep,
     LeaveStep DEF Step
<1>4. CASE \E o \in Objects : Collect(o) \/ Sweep(o) \/ CleanAtExit(o) \/ LookAt(o)
  BY <1>4, CollectStep, SweepStep, CleanAtExitStep, ShutdownStep
<1>5. CASE Exit
  BY <1>5, ExitStep
<1>6. CASE Shutdown \/ TearDown
  BY <1>6, ShutdownStep
<1> QED
  BY <1>1, <1>2, <1>3, <1>4, <1>5, <1>6 DEF Next

\* Every object counts at least the references that the program, other objects and calls of
\* close have to it, and whoever is in a monitor is in the close it belongs to (MemoryBuffer,
\* ColumnVector and MemoryCleaner), for any number of threads and objects.
THEOREM MemTypes == Spec => []MemTypeOK
<1>1. ASSUME Inv
      PROVE  MemTypeOK
  <2>1. Types /\ Counting /\ Unmade /\ Entered
    BY <1>1 DEF Inv
  <2>2. ASSUME NEW o \in Made
        PROVE  /\ object[o].refCount \in 0 .. MaxRefs + MaxObjects
               /\ object[o].refCount >= references[o] + Cardinality({c \in Made : Owns(c, o)})
                                                      + Cardinality({t \in Threads : Entering(t, o)})
    <3>1. object[o].refCount \in Int /\ object[o].refCount >= references[o] /\ references[o] \in Nat
      BY <1>1, HeldIsCounted
    <3>2. Counts(o)
      BY <2>1 DEF Counting
    <3>3. /\ mode.objects \in 0 .. MaxObjects /\ Len(object) <= mode.objects /\ Len(object) \in Nat
          /\ MaxRefs \in Nat /\ MaxObjects \in Nat
      BY <2>1, MadeIs, ModesAssumption, BoundsAssumption DEF Types
    <3>4. object[o].refCount \in 0 .. MaxRefs + MaxObjects
      BY <3>1, <3>2, <3>3 DEF Counts
    <3> QED
      BY <3>2, <3>4 DEF Counts, Owners, Enterers
  <2>3. ASSUME NEW o \in Objects \ Made
        PROVE  memory[o] = "none" /\ references[o] = 0 /\ o \notin all
    BY <2>1 DEF Unmade, Types
  <2>4. ASSUME NEW o \in Objects, monitor[o] # None
        PROVE  \E k \in DOMAIN stack[monitor[o]] :
                 stack[monitor[o]][k].obj = o /\ stack[monitor[o]][k].op = "close"
    BY <2>1, <2>4 DEF Entered
  <2>5. collected \subseteq gone
    BY <2>1 DEF Types
  <2> QED
    BY <2>2, <2>3, <2>4, <2>5 DEF MemTypeOK
<1> QED
  BY <1>1, InitInv, NextInv, PTL DEF Spec

\* Once Rmm.shutdown has given the memory resource back, no device buffer or column is left
\* whose native memory is still to be freed (MemoryCleaner.bestEffortHasRmmBlockers).
THEOREM CleanShutdown == Spec => []ShutdownIsClean
<1>1. ASSUME Inv
      PROVE  ShutdownIsClean
  <2> SUFFICES ASSUME rmm.pc = "down", NEW m \in Made, memory[m] = "live", IsDeviceBuffer(m), m \notin failed
               PROVE  FALSE
    BY DEF ShutdownIsClean
  <2>1. WellMade(m) /\ Accounted(m) /\ Looked /\ Types
    BY <1>1 DEF Inv, Heap
  <2>2. object[m].kind \in Kinds /\ object[m].parents \in Seq(Nat)
    BY <2>1, MadeIs
  <2>3. PICK b \in object[m].backing : object[b].kind # "mmap"
    BY DEF IsDeviceBuffer, IsBlocker
  <2>4. object[m].kind # "column" /\ object[m].kind # "slice"
    BY <2>1 DEF IsDeviceBuffer, Accounted
  <2>5. object[m].parents = <<>>
    BY <2>1, <2>4 DEF WellMade
  <2>6. Parents(m) = {}
    BY <2>5 DEF Parents, Range
  <2>7. b = m
    BY <2>1, <2>3, <2>6 DEF WellMade
  <2>8. object[m].kind \in {"device", "rmm"}
    BY <2>2, <2>3, <2>4, <2>7 DEF Kinds, Allocations
  <2> QED
    BY <2>1, <2>8 DEF Looked
<1> QED
  BY <1>1, InitInv, NextInv, PTL DEF Spec

(***************************************************************************)
(* The refinement.                                                          *)
(***************************************************************************)
Held(m) == \E o \in Made : m \in object[o].backing /\ references[o] > 0

LEMMA ALeast ==
  ASSUME NEW S, S \subseteq Nat, S # {}
  PROVE  \E n \in S : \A m \in S : ~(m < n)
<1>1. \E n \in S : \A m \in S : ~(<<m, n>> \in OpToRel(<, Nat))
  BY NatLessThanWellFounded, WFMin
<1>2. PICK n \in S : \A m \in S : ~(<<m, n>> \in OpToRel(<, Nat))
  BY <1>1
<1> QED
  BY <1>2 DEF OpToRel

\* What holds the data of anything alive has not been touched.
LEMMA BackingUntouched ==
  ASSUME Inv, exit.pc = "up", NEW p \in Made, Alive(p), NEW m \in object[p].backing
  PROVE  Untouched(m)
<1>1. Types /\ Heap /\ Spared
  BY DEF Inv
<1>2. PICK S : S = {q \in Made : Alive(q) /\ m \in object[q].backing}
  OBVIOUS
<1>3. S \subseteq Nat /\ S # {}
  BY <1>1, <1>2, MadeIs
<1>4. PICK q \in S : \A r \in S : ~(r < q)
  BY <1>3, ALeast
<1>5. /\ q \in Made /\ Alive(q) /\ m \in object[q].backing /\ Untouched(q) /\ WellMade(q)
      /\ object[q].parents \in Seq(Nat) /\ q \in Nat
  BY <1>1, <1>2, <1>3, <1>4, MadeIs DEF Spared, Heap
<1>6. CASE m = q
  BY <1>5, <1>6
<1>7. CASE m # q
  <2>1. PICK r \in Parents(q) : m \in object[r].backing
    BY <1>5, <1>7 DEF WellMade
  <2>2. r \in 1 .. q - 1 /\ r < q /\ r \in Made
    <3>1. r \in 1 .. q - 1 /\ Made = 1 .. Len(object) /\ Len(object) \in Nat
      BY <1>1, <1>5, <2>1, MadeIs DEF WellMade
    <3> QED
      BY <1>5, <3>1
  <2>3. object[q].parents # <<>>
    BY <2>1 DEF Parents, Range
  <2>4. object[q].owning /\ ~Working(q)
    BY <1>5, <2>3 DEF Untouched
  <2>5. Owns(q, r)
    BY <2>1, <2>4 DEF Owns, Working, Parents
  <2>6. r \in S
    BY <1>2, <1>5, <2>1, <2>2, <2>5 DEF Alive
  <2> QED
    BY <1>4, <2>2, <2>6
<1> QED
  BY <1>6, <1>7

\* What a step may do to native memory: allocate it, free it, or leave it as it is.
Allocated(m) == memory[m] = "none" /\ memory'[m] = "live" /\ ~Held(m) /\ Held(m)'
Stays(m) == memory'[m] = memory[m] /\ (Held(m)' => Held(m))
IsFreed(m) ==
  /\ memory[m] = "live" /\ memory'[m] = "freed" /\ (~Held(m) \/ exit.pc # "up")
  /\ (Held(m)' <=> Held(m))

LEMMA SharedNext ==
  ASSUME Types, Types', exit.pc # "up" => exit'.pc # "up",
         \A m \in Objects : Allocated(m) \/ Stays(m) \/ IsFreed(m)
  PROVE  Shared!Next
<1>h. PICK held : held = [m \in Objects |-> \E o \in Made : m \in object[o].backing /\ references[o] > 0]
  OBVIOUS
<1>i. PICK after : after = [m \in Objects |-> \E o \in Made : m \in object[o].backing /\ references[o] > 0]'
  OBVIOUS
<1>1. after = [m \in Objects |-> \E o \in Made' : m \in object'[o].backing /\ references'[o] > 0]
  BY <1>i
<1>2. \A m \in Objects : (held[m] <=> Held(m)) /\ (after[m] <=> Held(m)')
  BY <1>h, <1>1 DEF Held
<1>3. after = [m \in Objects |-> after[m]]
  BY <1>1
<1>4. memory' = [m \in Objects |-> memory'[m]]
  BY DEF Types
<1>5. (exit.pc # "up") => (exit.pc # "up")'
  OBVIOUS
<1>6. ASSUME NEW m \in Objects
      PROVE  \/ memory[m] = "none" /\ memory'[m] = "live" /\ ~held[m] /\ after[m]
             \/ held[m] /\ ~after[m] /\ memory'[m] = memory[m]
             \/ memory[m] = "live" /\ (~held[m] \/ exit.pc # "up") /\ memory'[m] = "freed" /\ after[m] = held[m]
             \/ memory'[m] = memory[m] /\ after[m] = held[m]
  <2>1. held[m] \in BOOLEAN /\ after[m] \in BOOLEAN
    BY <1>h, <1>1
  <2>2. CASE Allocated(m)
    BY <1>2, <2>2 DEF Allocated
  <2>3. CASE Stays(m)
    BY <1>2, <2>1, <2>3 DEF Stays
  <2>4. CASE IsFreed(m)
    BY <1>2, <2>1, <2>4 DEF IsFreed
  <2> QED
    BY <2>2, <2>3, <2>4
<1> QED
  BY <1>h, <1>i, <1>3, <1>4, <1>5, <1>6, Zenon
     DEF Shared!Next, Shared!Allocate, Shared!GiveUp, Shared!Free, Shared!Keep

\* Memory is allocated with a first reference; a slice and a column have only what their
\* parents, to which there are references, have the data of.
LEMMA RegistersShares ==
  ASSUME Inv, Registers
  PROVE  Shared!Next
<1>1. PICK kind, parents, objects : Makes(kind, parents) /\ Recounted(objects) /\ Register(objects, kind, parents)
  BY DEF Registers
<1>x. PICK x : x = Fresh
  OBVIOUS
<1>2. Types /\ Heap /\ Unmade
  BY DEF Inv
<1>3. /\ Types' /\ object'[x] = New(kind, parents) /\ Made' = Made \cup {x}
      /\ \A o \in Made : object'[o] = objects[o]
  BY <1>1, <1>x, Registered
<1>4. /\ New(kind, parents).backing =
           (IF kind = "slice" THEN {} ELSE {x}) \cup UNION {object[p].backing : p \in Range(parents)}
      /\ x \in Objects /\ x \notin Made
  BY <1>1, <1>x, NewIs
<1>5. \A o \in Made : object'[o].backing = object[o].backing
  <2>1. \A o \in Made : object[o] \in ObjectType
    BY <1>2, MadeIs
  <2> QED
    BY <1>1, <1>3, <2>1 DEF Recounted, ObjectType
<1>6. /\ memory' = [memory EXCEPT ![x] = IF kind = "slice" THEN "none" ELSE "live"]
      /\ exit' = exit
  BY <1>1, <1>x DEF Register
<1>7. /\ Range(parents) \subseteq Made /\ \A p \in Range(parents) : references[p] > 0
      /\ references'[x] = 1
      /\ \A o \in Objects \ {x} : references'[o] > 0 => references[o] > 0
  BY <1>1, <1>x, Zenon DEF Makes
<1>8. \A o \in Made : o \in Objects \ {x} /\ object[o].backing \subseteq Made
  BY <1>2, <1>4, MadeIs DEF Heap, WellMade
<1>9. ASSUME NEW m \in Objects, m # x
      PROVE  Stays(m)
  <2>1. memory'[m] = memory[m]
    BY <1>2, <1>6, <1>9 DEF Types
  <2>2. ASSUME Held(m)'
        PROVE  Held(m)
    <3>1. PICK o \in Made \cup {x} : m \in object'[o].backing /\ references'[o] > 0
      BY <1>3, <2>2 DEF Held
    <3>2. CASE o = x
      <4>1. PICK p \in Range(parents) : m \in object[p].backing
        BY <1>3, <1>4, <1>9, <3>1, <3>2
      <4> QED
        BY <1>7, <4>1 DEF Held
    <3>3. CASE o \in Made
      BY <1>5, <1>7, <1>8, <3>1, <3>3 DEF Held
    <3> QED
      BY <3>1, <3>2, <3>3
  <2> QED
    BY <2>1, <2>2 DEF Stays
<1>10. ~Held(x)
  BY <1>4, <1>8 DEF Held
<1>11. memory[x] = "none"
  BY <1>2, <1>4 DEF Unmade
<1>12. CASE kind = "slice"
  <2>1. memory'[x] = memory[x]
    BY <1>2, <1>4, <1>6, <1>11, <1>12 DEF Types
  <2>2. x \notin object'[x].backing
    BY <1>3, <1>4, <1>7, <1>8, <1>12
  <2>3. ~Held(x)'
    BY <1>3, <1>4, <1>5, <1>8, <2>2 DEF Held
  <2>4. Stays(x)
    BY <2>1, <2>3 DEF Stays
  <2> QED
    BY <1>2, <1>3, <1>6, <1>9, <2>4, SharedNext
<1>13. CASE kind # "slice"
  <2>1. memory'[x] = "live"
    BY <1>2, <1>4, <1>6, <1>13 DEF Types
  <2>2. x \in object'[x].backing /\ references'[x] > 0 /\ x \in Made'
    BY <1>3, <1>4, <1>7, <1>13
  <2>3. Held(x)'
    BY <2>2 DEF Held
  <2>4. Allocated(x)
    BY <1>10, <1>11, <2>1, <2>3 DEF Allocated
  <2> QED
    BY <1>2, <1>3, <1>6, <1>9, <2>4, SharedNext
<1> QED
  BY <1>12, <1>13

\* A step that makes nothing and frees nothing.
LEMMA QuietShares ==
  ASSUME Types, Types', memory' = memory, Made' = Made, exit.pc # "up" => exit'.pc # "up",
         \A o \in Made : object'[o].backing = object[o].backing /\ (references'[o] > 0 => references[o] > 0)
  PROVE  Shared!Next
<1>1. \A m \in Objects : Stays(m)
  BY DEF Stays, Held
<1> QED
  BY <1>1, SharedNext

LEMMA BackingKept ==
  ASSUME Types, NEW o \in Made, NEW r \in ObjectType, r.backing = object[o].backing,
         object' = [object EXCEPT ![o] = r]
  PROVE  Made' = Made /\ \A p \in Made : object'[p].backing = object[p].backing
<1>1. /\ Len(object') = Len(object) /\ object' \in Seq(ObjectType) /\ object'[o] = r
      /\ \A p \in Made \ {o} : object'[p] = object[p]
  BY Updated
<1>2. Made' = DOMAIN object' /\ DOMAIN object' = 1 .. Len(object') /\ Made = 1 .. Len(object)
  BY <1>1, MadeIs DEF Made
<1>3. \A p \in Made : object'[p].backing = object[p].backing
  BY <1>1
<1> QED
  BY <1>1, <1>2, <1>3

\* Objects change in what a close counts or a cleaner clears, memory not at all.
LEMMA ChangeShares ==
  ASSUME Types, Types', memory' = memory, references' = references, exit.pc # "up" => exit'.pc # "up",
         \/ object' = object
         \/ \E o \in Made, r \in ObjectType : r.backing = object[o].backing /\ object' = [object EXCEPT ![o] = r]
  PROVE  Shared!Next
<1>1. Made' = Made /\ \A p \in Made : object'[p].backing = object[p].backing
  BY BackingKept DEF Made
<1> QED
  BY <1>1, QuietShares

LEMMA CountChanges ==
  ASSUME Types, NEW o \in Made, NEW n \in Int
  PROVE  \E r \in ObjectType : r.backing = object[o].backing /\ Counted(o, n) = [object EXCEPT ![o] = r]
<1>1. PICK r : r = [object[o] EXCEPT !.refCount = object[o].refCount + n]
  OBVIOUS
<1>2. object[o] \in ObjectType /\ object[o].refCount \in Int
  BY MadeIs
<1>3. r \in ObjectType /\ r.backing = object[o].backing
  BY <1>1, <1>2 DEF ObjectType
<1>4. Counted(o, n) = [object EXCEPT ![o] = r]
  BY <1>1 DEF Counted
<1> QED
  BY <1>3, <1>4

(***************************************************************************)
(* Every step implements one of the shared memory's.                          *)
(***************************************************************************)
LEMMA ProgramShares ==
  ASSUME Inv, Types', NEW t \in Threads, Call(t)
  PROVE  Shared!Next
<1>1. Types
  BY DEF Inv
<1>2. CASE \E kind \in Allocations : Allocate(t, kind)
  BY <1>2, AllocateStep, RegistersShares
<1>3. CASE \E o \in Made : Slice(t, o) \/ ColumnOver(t, o)
  BY <1>3, SliceStep, ColumnOverStep, RegistersShares
<1>4. CASE \E data, valid \in Made : ColumnOf(t, data, valid)
  BY <1>4, ColumnOfStep, RegistersShares
<1>5. ASSUME NEW o \in Made, IncRefCount(t, o)
      PROVE  Shared!Next
  <2>1. /\ object' = Counted(o, 1) /\ references' = [references EXCEPT ![o] = @ + 1] /\ references[o] > 0
        /\ memory' = memory /\ exit' = exit
    BY <1>5 DEF IncRefCount, CanEnter, HasRef
  <2>2. 1 \in Int
    OBVIOUS
  <2>3. PICK r \in ObjectType : r.backing = object[o].backing /\ Counted(o, 1) = [object EXCEPT ![o] = r]
    BY <1>1, <2>2, CountChanges, Zenon
  <2>4. Made' = Made /\ \A p \in Made : object'[p].backing = object[p].backing
    BY <1>1, <2>1, <2>3, BackingKept
  <2>5. \A p \in Objects : references'[p] > 0 => references[p] > 0
    BY <1>1, <2>1 DEF Types
  <2>6. \A p \in Made : p \in Objects
    BY <1>1, MadeIs
  <2> QED
    BY <1>1, <2>1, <2>4, <2>5, <2>6, QuietShares
<1>6. ASSUME NEW o \in Made, Forget(t, o) \/ Close(t, o)
      PROVE  Shared!Next
  <2>1. /\ object' = object /\ references' = [references EXCEPT ![o] = @ - 1]
        /\ memory' = memory /\ exit' = exit
    BY <1>6 DEF Forget, Close, heapVars
  <2>2. \A p \in Objects : references'[p] > 0 => references[p] > 0
    BY <1>1, <2>1 DEF Types
  <2>3. Made' = Made /\ \A p \in Made : p \in Objects
    BY <1>1, <2>1, MadeIs DEF Made
  <2> QED
    BY <1>1, <2>1, <2>2, <2>3, QuietShares
<1> QED
  BY <1>2, <1>3, <1>4, <1>5, <1>6 DEF Call

\* What is being freed is live, and there is no reference to what has its data.
LEMMA FreeNativeShares ==
  ASSUME Inv, Types', mode.debug => "mmap" \notin mode.kinds, NEW t \in Threads, FreeNative(t)
  PROVE  Shared!Next
<1>o. PICK o : o = Top(t).obj
  OBVIOUS
<1>r. PICK r : r = [object[o] EXCEPT !.native = FALSE]
  OBVIOUS
<1>1. Types /\ Heap
  BY DEF Inv
<1>2. /\ At(t, "free") /\ memory' = Freed(o) /\ object' = [object EXCEPT ![o].native = FALSE]
      /\ references' = references /\ exit' = exit
  BY <1>o DEF FreeNative
<1>3. /\ 1 \in DOMAIN stack[t] /\ Top(t) = stack[t][1] /\ stack[t][1].pc = "free"
      /\ FrameOK(t, 1) /\ o \in Made /\ o \in Objects /\ object[o] \in ObjectType
  BY <1>o, <1>2, TopIs
<1>4. r \in ObjectType /\ r.backing = object[o].backing /\ object' = [object EXCEPT ![o] = r]
  BY <1>r, <1>2, <1>3 DEF ObjectType
<1>5. Made' = Made /\ \A p \in Made : object'[p].backing = object[p].backing
  BY <1>1, <1>3, <1>4, BackingKept
<1>6. \A m \in Objects : Held(m)' <=> Held(m)
  BY <1>2, <1>5 DEF Held
<1>7. memory[o] = "live"
  <2>1. WellMade(o) /\ Accounted(o)
    BY <1>1, <1>3 DEF Heap
  <2>2. object[o].native
    BY <1>o, <1>3, <2>1 DEF FrameOK, WellMade
  <2> QED
    BY <2>1, <2>2 DEF Accounted
<1>8. ~Held(o) \/ exit.pc # "up"
  <2> SUFFICES ASSUME Held(o), exit.pc = "up"
               PROVE  FALSE
    OBVIOUS
  <2>1. PICK p \in Made : o \in object[p].backing /\ references[p] > 0
    BY DEF Held
  <2>2. Untouched(o)
    BY <2>1, BackingUntouched DEF Alive
  <2>3. Working(o)
    BY <1>o, <1>3 DEF Working
  <2> QED
    BY <2>2, <2>3 DEF Untouched
<1>9. IsFreed(o)
  BY <1>1, <1>2, <1>3, <1>6, <1>7, <1>8 DEF IsFreed, Freed, Types
<1>10. \A m \in Objects \ {o} : Stays(m)
  BY <1>1, <1>2, <1>6 DEF Stays, Freed, Types
<1> QED
  BY <1>1, <1>2, <1>9, <1>10, SharedNext

LEMMA CallShares ==
  ASSUME Inv, Types', mode.debug => "mmap" \notin mode.kinds, NEW t \in Threads, Step(t)
  PROVE  Shared!Next
<1>o. PICK o : o = Top(t).obj
  OBVIOUS
<1>1. Types
  BY DEF Inv
<1>2. ASSUME NEW pc, At(t, pc)
      PROVE  o \in Made /\ object[o] \in ObjectType
  BY <1>o, <1>2, TopIs
<1>3. CASE EnterClose(t)
  <2>1. At(t, "enter") /\ object' = Counted(o, -1) /\ UNCHANGED <<memory, references, exit>>
    BY <1>o, <1>3 DEF EnterClose
  <2>2. o \in Made /\ -1 \in Int
    BY <1>2, <2>1
  <2>3. PICK r \in ObjectType : r.backing = object[o].backing /\ Counted(o, -1) = [object EXCEPT ![o] = r]
    BY <1>1, <2>2, CountChanges, Zenon
  <2> QED
    BY <1>1, <2>1, <2>2, <2>3, ChangeShares
<1>4. CASE EnterClean(t) \/ CloseParent(t)
  <2>1. UNCHANGED <<object, memory, references, exit>>
    BY <1>4 DEF EnterClean, CloseParent, heapVars
  <2> QED
    BY <1>1, <2>1, ChangeShares
<1>5. CASE FreeNative(t)
  BY <1>5, FreeNativeShares
<1>6. CASE FreeFails(t)
  <2>1. /\ At(t, "free") /\ UNCHANGED <<memory, references, exit>>
        /\ object' = [object EXCEPT ![o].native = (object[o].kind = "rmm")]
    BY <1>o, <1>6 DEF FreeFails
  <2>2. o \in Made /\ object[o] \in ObjectType
    BY <1>2, <2>1
  <2>3. PICK b \in BOOLEAN : b = (object[o].kind = "rmm")
    OBVIOUS
  <2>4. PICK r : r = [object[o] EXCEPT !.native = b]
    OBVIOUS
  <2>5. r \in ObjectType /\ r.backing = object[o].backing
    BY <2>2, <2>4 DEF ObjectType
  <2>6. object' = [object EXCEPT ![o] = r]
    BY <2>1, <2>3, <2>4
  <2> QED
    BY <1>1, <2>1, <2>2, <2>5, <2>6, ChangeShares
<1>7. CASE Disown(t)
  <2>1. /\ At(t, "parents") /\ UNCHANGED <<memory, references, exit>>
        /\ object' = [object EXCEPT ![o].owning = FALSE]
    BY <1>o, <1>7 DEF Disown
  <2>2. o \in Made /\ object[o] \in ObjectType
    BY <1>2, <2>1
  <2>3. PICK r : r = [object[o] EXCEPT !.owning = FALSE]
    OBVIOUS
  <2>4. r \in ObjectType /\ r.backing = object[o].backing /\ object' = [object EXCEPT ![o] = r]
    BY <2>1, <2>2, <2>3 DEF ObjectType
  <2> QED
    BY <1>1, <2>1, <2>2, <2>4, ChangeShares
<1>8. CASE Leave(t)
  <2>1. /\ UNCHANGED <<object, memory, references>>
        /\ exit' = exit \/ exit' = [exit EXCEPT !.todo = {}]
    BY <1>8, Zenon DEF Leave, heapVars
  <2>2. exit'.pc = exit.pc
    BY <1>1, <2>1 DEF Types
  <2> QED
    BY <1>1, <2>1, <2>2, ChangeShares
<1> QED
  BY <1>3, <1>4, <1>5, <1>6, <1>7, <1>8 DEF Step

LEMMA OtherShares ==
  ASSUME Types, Types',
         \/ \E o \in Objects : Collect(o) \/ Sweep(o) \/ CleanAtExit(o) \/ LookAt(o)
         \/ Exit \/ Shutdown \/ TearDown
  PROVE  Shared!Next
<1>1. UNCHANGED <<object, memory, references>>
  BY DEF Collect, Sweep, CleanAtExit, LookAt, Exit, Shutdown, TearDown, heapVars
<1>2. exit.pc # "up" => exit'.pc # "up"
  <2>1. CASE exit' = exit
    BY <2>1
  <2>2. CASE \E o \in Objects : CleanAtExit(o)
    BY <2>2 DEF CleanAtExit, Types
  <2>3. CASE Exit
    BY <2>3 DEF Exit
  <2> QED
    BY <2>1, <2>2, <2>3 DEF Collect, Sweep, LookAt, Shutdown, TearDown
<1> QED
  BY <1>1, <1>2, ChangeShares

\* Native memory is freed once, and before the virtual machine exits not while anything whose
\* data it holds has a reference (MemoryBuffer.close, slice and MemoryCleaner), whatever the
\* threads, objects and failures.  In the debugging mode, in which the exit hook cleans, this
\* takes that no file is mapped: cleanImpl of HostMemoryBuffer.MmapCleaner is in no monitor.
THEOREM BuffersShareMemory ==
  ASSUME \A m \in Modes : m.debug => "mmap" \notin m.kinds
  PROVE  Spec => ImplementsSharedMemory
<1>1. ASSUME Init
      PROVE  Shared!Init
  <2>1. object = <<>> /\ memory = [o \in Objects |-> "none"] /\ exit = [pc |-> "up", todo |-> {}]
    BY <1>1 DEF Init
  <2>2. Made = {}
    BY <2>1 DEF Made
  <2>3. [m \in Objects |-> \E o \in Made : m \in object[o].backing /\ references[o] > 0]
          = [m \in Objects |-> FALSE]
    BY <2>2
  <2>4. (exit.pc # "up") = FALSE
    BY <2>1
  <2> QED
    BY <2>1, <2>3, <2>4 DEF Shared!Init
<1>2. ASSUME Inv, Inv', [Next]_memVars
      PROVE  [Shared!Next]_(Shared!memoryVars)
  <2>1. Types /\ Types' /\ (mode.debug => "mmap" \notin mode.kinds)
    BY <1>2 DEF Inv, Types
  <2>2. CASE UNCHANGED memVars
    BY <2>2 DEF memVars, Shared!memoryVars, Made
  <2>3. CASE \E t \in mode.users : Call(t)
    BY <1>2, <2>1, <2>3, UsersAreThreads, ProgramShares
  <2>4. CASE \E t \in Threads : Step(t)
    BY <1>2, <2>1, <2>4, CallShares
  <2>5. CASE \/ \E o \in Objects : Collect(o) \/ Sweep(o) \/ CleanAtExit(o) \/ LookAt(o)
             \/ Exit \/ Shutdown \/ TearDown
    BY <2>1, <2>5, OtherShares
  <2> QED
    BY <1>2, <2>2, <2>3, <2>4, <2>5 DEF Next
<1> QED
  BY <1>1, <1>2, InitInv, NextInv, PTL DEF Spec, ImplementsSharedMemory, Shared!Spec
=============================================================================
