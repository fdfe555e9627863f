---------------------------- MODULE MemoryBuffers ----------------------------
(***************************************************************************)
(* The Java buffers and columns of cuDF (java/src/main/java/ai/rapids/cudf:  *)
(* MemoryBuffer, DeviceMemoryBuffer, HostMemoryBuffer, ColumnVector) and the *)
(* MemoryCleaner behind them.  An object counts the references to it, and     *)
(* the last close has its cleaner free what it owns: native memory, or        *)
(* references to other objects.  What a program forgets to close is cleaned   *)
(* by a thread of its own when the garbage collector has found the object,    *)
(* and, in a debugging mode, by a hook when the virtual machine exits.        *)
(*                                                                         *)
(* Objects are numbered as they are made.  A step lies between two points      *)
(* where another thread may act: a monitor taken or released, a native call,   *)
(* a field that is read without a monitor.                                     *)
(***************************************************************************)
EXTENDS Integers, Sequences, FiniteSets, Functions

CONSTANTS
  Users,        \* threads of the program
  Cleaner, Hook, \* the cleaner thread, the shutdown hook
  MaxObjects,   \* bound: objects made in any mode
  MaxRefs,      \* bound: references counted by an object when the program makes another
  Modes,        \* [users, objects, kinds, failures, debug, shutdown]: who calls, how many objects
                \* are made of what kinds, how many native calls may fail,
                \* ai.rapids.refcount.debug, whether Rmm.shutdown is called
  None

Threads == Users \cup {Cleaner, Hook}
Objects == 1 .. MaxObjects
Allocations == {"device", "rmm", "mmap"}

ASSUME ThreadsAssumption ==
  /\ IsFiniteSet(Users) /\ Cleaner # Hook /\ Cleaner \notin Users /\ Hook \notin Users
  /\ None \notin Threads
ASSUME BoundsAssumption == MaxObjects \in Nat /\ MaxRefs \in Nat
ASSUME ModesAssumption ==
  Modes \subseteq [users : SUBSET Users, objects : 0 .. MaxObjects, kinds : SUBSET Allocations,
                   failures : Nat, debug : BOOLEAN, shutdown : BOOLEAN]

VARIABLES
  mode,
  object,     \* the objects made: [kind, parents, refCount, native, owning, backing]; native:
              \* the cleaner's address or handle is not 0; owning: its parent or toClose is
              \* there; backing: whose native memory its data lie in
  memory,     \* the native memory of each object: "none", "live", "freed" or "twice" freed
  failed,     \* objects whose native memory could not be freed
  references, \* how many references to each object the program has not given up
  monitor, cleanerMonitor, \* the thread that is in the monitor of an object, of its cleaner
  stack,      \* each thread's calls of close and clean, the innermost first
  all, collected, gone, \* MemoryCleaner's map and queue; the objects that are no more
  exit,       \* the shutdown hook: [pc, todo]
  rmm         \* Rmm.shutdown: [pc, todo]
memVars == <<mode, object, memory, failed, references, monitor, cleanerMonitor, stack,
             all, collected, gone, exit, rmm>>
heapVars == <<object, memory, failed>>
callVars == <<monitor, cleanerMonitor, stack>>
gcVars == <<all, collected, gone>>

(***************************************************************************)
(* Objects.                                                                 *)
(***************************************************************************)
Made == DOMAIN object
Fresh == Len(object) + 1
Room == Len(object) < mode.objects

\* isClean of the cleaners
IsClean(o) == ~object[o].native /\ ~object[o].owning

\* CleanerWeakReference.isRmmBlocker: device buffers and columns are blockers.
IsBlocker(o) == \E m \in object[o].backing : object[m].kind # "mmap"
IsDeviceBuffer(o) == object[o].kind # "column" /\ IsBlocker(o)

New(kind, parents) ==
  [kind |-> kind, parents |-> parents, refCount |-> 1,
   native |-> kind # "slice", owning |-> parents # <<>>,
   backing |-> (IF kind = "slice" THEN {} ELSE {Fresh}) \cup UNION {object[p].backing : p \in Range(parents)}]

\* The constructors: the first reference is counted and the cleaner registered.
Register(objects, kind, parents) ==
  /\ object' = Append(objects, New(kind, parents))
  /\ memory' = [memory EXCEPT ![Fresh] = IF kind = "slice" THEN "none" ELSE "live"]
  /\ all' = all \cup {Fresh}
  /\ UNCHANGED <<mode, failed, collected, gone, callVars, exit, rmm>>

Counted(o, n) == [object EXCEPT ![o].refCount = @ + n]

(***************************************************************************)
(* Calls of the program.  It closes a reference at most once and uses no      *)
(* reference that it gave up.  While Rmm.shutdown is looking, nobody           *)
(* allocates.                                                               *)
(***************************************************************************)
Idle(t) == stack[t] = <<>>
HasRef(o) == o \in Made /\ references[o] > 0
CanEnter(o) == HasRef(o) /\ monitor[o] = None

\* DeviceMemoryBuffer.allocate, fromRmm, HostMemoryBuffer.mapFile
Allocate(t, kind) ==
  /\ Idle(t) /\ Room /\ kind \in mode.kinds /\ rmm.pc = "up"
  /\ Register(object, kind, <<>>)
  /\ references' = [references EXCEPT ![Fresh] = 1]

\* Mutant: the slice counts no reference to the buffer.
SliceUncounted(t, o) ==
  /\ Idle(t) /\ Room /\ CanEnter(o) /\ object[o].kind # "column"
  /\ Register(object, "slice", <<o>>)
  /\ references' = [references EXCEPT ![Fresh] = 1]

\* slice, in the monitor of the buffer
Slice(t, o) ==
  /\ Idle(t) /\ Room /\ CanEnter(o) /\ object[o].kind # "column"
  /\ Register(Counted(o, 1), "slice", <<o>>)
  /\ references' = [references EXCEPT ![Fresh] = 1]

\* Mutant: the column counts no reference.
ColumnOverUncounted(t, o) ==
  /\ Idle(t) /\ Room /\ CanEnter(o) /\ IsDeviceBuffer(o)
  /\ Register(object, "column", <<o>>)
  /\ references' = [references EXCEPT ![Fresh] = 1]

\* A column over a contiguous buffer, which other columns may share: the buffer's references
\* are counted.
ColumnOver(t, o) ==
  /\ Idle(t) /\ Room /\ CanEnter(o) /\ IsDeviceBuffer(o)
  /\ Register(Counted(o, 1), "column", <<o>>)
  /\ references' = [references EXCEPT ![Fresh] = 1]

\* A column of data and validity, which it takes over: the program's references are now its.
ColumnOf(t, data, valid) ==
  /\ Idle(t) /\ Room /\ HasRef(data) /\ HasRef(valid) /\ data # valid
  /\ IsDeviceBuffer(data) /\ IsDeviceBuffer(valid)
  /\ Register(object, "column", <<data, valid>>)
  /\ references' = [references EXCEPT ![data] = @ - 1, ![valid] = @ - 1, ![Fresh] = 1]

IncRefCount(t, o) ==
  /\ Idle(t) /\ CanEnter(o) /\ object[o].refCount < MaxRefs
  /\ object' = Counted(o, 1)
  /\ references' = [references EXCEPT ![o] = @ + 1]
  /\ UNCHANGED <<mode, memory, failed, callVars, gcVars, exit, rmm>>

\* A reference is dropped that was not closed.
Forget(t, o) ==
  /\ Idle(t) /\ HasRef(o)
  /\ references' = [references EXCEPT ![o] = @ - 1]
  /\ UNCHANGED <<mode, heapVars, callVars, gcVars, exit, rmm>>

\* op is the caller of clean: close, or the cleaner thread's "sweep", or the "exit" hook.
Frame(o, op) ==
  [obj |-> o, op |-> op, pc |-> IF op = "close" THEN "enter" ELSE "clean", next |-> 1,
   cleaned |-> FALSE, threw |-> FALSE]

Close(t, o) ==
  /\ Idle(t) /\ HasRef(o)
  /\ references' = [references EXCEPT ![o] = @ - 1]
  /\ stack' = [stack EXCEPT ![t] = <<Frame(o, "close")>>]
  /\ UNCHANGED <<mode, heapVars, monitor, cleanerMonitor, gcVars, exit, rmm>>

Call(t) ==
  \/ \E kind \in Allocations : Allocate(t, kind)
  \/ \E o \in Made : Slice(t, o) \/ ColumnOver(t, o) \/ IncRefCount(t, o) \/ Forget(t, o) \/ Close(t, o)
  \/ \E data, valid \in Made : ColumnOf(t, data, valid)

(***************************************************************************)
(* close and clean: what a thread does in the innermost of its calls.         *)
(***************************************************************************)
Top(t) == Head(stack[t])
At(t, pc) == stack[t] # <<>> /\ Top(t).pc = pc
Goes(t, frame) == stack' = [stack EXCEPT ![t] = <<frame>> \o Tail(@)]

\* close takes the monitor and gives up a reference.
EnterClose(t) ==
  /\ At(t, "enter") /\ monitor[Top(t).obj] = None
  /\ object' = Counted(Top(t).obj, -1)
  /\ monitor' = [monitor EXCEPT ![Top(t).obj] = t]
  /\ Goes(t, [Top(t) EXCEPT !.pc = IF object[Top(t).obj].refCount = 1 THEN "clean" ELSE "leave",
                            !.threw = object[Top(t).obj].refCount < 1])
  /\ UNCHANGED <<mode, memory, failed, references, cleanerMonitor, gcVars, exit, rmm>>

\* Mutant: the address is set to 0 before the native call.
EnterCleanZeroes(t) ==
  LET o == Top(t).obj
  IN  /\ At(t, "clean")
      /\ IF object[o].kind = "mmap" THEN UNCHANGED cleanerMonitor
         ELSE cleanerMonitor[o] = None /\ cleanerMonitor' = [cleanerMonitor EXCEPT ![o] = t]
      /\ object' = [object EXCEPT ![o].native = FALSE]
      /\ Goes(t, [Top(t) EXCEPT !.pc = IF object[o].native THEN "free"
                                      ELSE IF object[o].owning THEN "parents" ELSE "leave"])
      /\ UNCHANGED <<mode, memory, failed, references, monitor, gcVars, exit, rmm>>

\* cleanImpl is synchronized, but for that of MmapCleaner.
EnterClean(t) ==
  LET o == Top(t).obj
  IN  /\ At(t, "clean")
      /\ IF object[o].kind = "mmap" THEN UNCHANGED cleanerMonitor
         ELSE cleanerMonitor[o] = None /\ cleanerMonitor' = [cleanerMonitor EXCEPT ![o] = t]
      /\ Goes(t, [Top(t) EXCEPT !.pc = IF object[o].native THEN "free"
                                      ELSE IF object[o].owning THEN "parents" ELSE "leave"])
      /\ UNCHANGED <<mode, heapVars, references, monitor, gcVars, exit, rmm>>

Freed(o) == [memory EXCEPT ![o] = IF @ = "live" THEN "freed" ELSE "twice"]

\* The native call, after which the address or handle is set to 0.
FreeNative(t) ==
  LET o == Top(t).obj
  IN  /\ At(t, "free")
      /\ memory' = Freed(o)
      /\ object' = [object EXCEPT ![o].native = FALSE]
      /\ Goes(t, [Top(t) EXCEPT !.pc = IF object[o].owning THEN "parents" ELSE "leave", !.cleaned = TRUE])
      /\ UNCHANGED <<mode, failed, references, monitor, cleanerMonitor, gcVars, exit, rmm>>

\* It fails before it has freed anything (auto_set_device).  RmmDeviceBufferCleaner alone
\* then keeps the address.
FreeFails(t) ==
  LET o == Top(t).obj
  IN  /\ At(t, "free") /\ Cardinality(failed \cup {o}) <= mode.failures
      /\ failed' = failed \cup {o}
      /\ object' = [object EXCEPT ![o].native = (object[o].kind = "rmm")]
      /\ Goes(t, [Top(t) EXCEPT !.pc = IF object[o].owning THEN "parents" ELSE "leave", !.threw = TRUE])
      /\ UNCHANGED <<mode, memory, references, monitor, cleanerMonitor, gcVars, exit, rmm>>

\* A slice closes its parent, a column its buffers one by one, whatever they throw.
CloseParent(t) ==
  LET f == Top(t)
      parents == object[f.obj].parents
  IN  /\ At(t, "parents") /\ f.next <= Len(parents)
      /\ stack' = [stack EXCEPT ![t] = <<Frame(parents[f.next], "close"), [f EXCEPT !.next = @ + 1]>> \o Tail(@)]
      /\ UNCHANGED <<mode, heapVars, references, monitor, cleanerMonitor, gcVars, exit, rmm>>

Disown(t) ==
  LET o == Top(t).obj
  IN  /\ At(t, "parents") /\ Top(t).next > Len(object[o].parents)
      /\ object' = [object EXCEPT ![o].owning = FALSE]
      /\ Goes(t, [Top(t) EXCEPT !.pc = "leave", !.cleaned = TRUE])
      /\ UNCHANGED <<mode, memory, failed, references, monitor, cleanerMonitor, gcVars, exit, rmm>>

\* Both monitors are released.  clean takes the object out of `all' if it has cleaned and
\* nothing threw, the cleaner thread in any case.  An exception goes on to the caller, and
\* ends the hook.
Leave(t) ==
  LET f == Top(t)
      below == Tail(stack[t])
      Released(owner) == IF owner = t THEN None ELSE owner
  IN  /\ At(t, "leave")
      /\ monitor' = IF f.op = "close" THEN [monitor EXCEPT ![f.obj] = None] ELSE monitor
      /\ cleanerMonitor' = [cleanerMonitor EXCEPT ![f.obj] = Released(@)]
      /\ all' = IF f.op = "sweep" \/ (f.cleaned /\ ~f.threw) THEN all \ {f.obj} ELSE all
      /\ stack' = [stack EXCEPT ![t] =
           IF below = <<>> THEN <<>>
           ELSE <<[Head(below) EXCEPT !.threw = @ \/ f.threw]>> \o Tail(below)]
      /\ exit' = IF f.op = "exit" /\ f.threw THEN [exit EXCEPT !.todo = {}] ELSE exit
      /\ UNCHANGED <<mode, heapVars, references, collected, gone, rmm>>

Step(t) ==
  \/ EnterClose(t) \/ EnterClean(t) \/ FreeNative(t) \/ FreeFails(t)
  \/ CloseParent(t) \/ Disown(t) \/ Leave(t)

(***************************************************************************)
(* The garbage collector, the cleaner thread and the shutdown hook.           *)
(***************************************************************************)
InUse(o) == \E t \in Threads : \E k \in DOMAIN stack[t] : stack[t][k].obj = o /\ stack[t][k].op = "close"

\* Mutant: a cleaner refers to its object, too.
ReachableByCleaner(o) ==
  \/ references[o] > 0 \/ InUse(o) \/ o \in all
  \/ \E p \in all : object[p].owning /\ o \in Range(object[p].parents)

\* `all' keeps the cleaners, and these keep what they own.
Reachable(o) ==
  \/ references[o] > 0 \/ InUse(o)
  \/ \E p \in all : object[p].owning /\ o \in Range(object[p].parents)

\* The object is collected; if `all' still has its weak reference, that is enqueued.
Collect(o) ==
  /\ o \in Made /\ o \notin gone /\ ~Reachable(o)
  /\ gone' = gone \cup {o}
  /\ collected' = collected \cup ({o} \cap all)
  /\ UNCHANGED <<mode, heapVars, references, callVars, all, exit, rmm>>

\* The cleaner thread takes a reference from the queue.
Sweep(o) ==
  /\ Idle(Cleaner) /\ exit.pc # "alone" /\ o \in collected
  /\ collected' = collected \ {o}
  /\ stack' = [stack EXCEPT ![Cleaner] = <<Frame(o, "sweep")>>]
  /\ UNCHANGED <<mode, heapVars, references, monitor, cleanerMonitor, all, gone, exit, rmm>>

\* The hook interrupts the cleaner thread and waits a second for it: it may be gone then, or
\* in the middle of something.  Other threads go on.
Exit ==
  /\ mode.debug /\ exit.pc = "up"
  /\ \E pc \in {"both"} \cup (IF Idle(Cleaner) THEN {"alone"} ELSE {}) : exit' = [pc |-> pc, todo |-> all]
  /\ UNCHANGED <<mode, heapVars, references, callVars, gcVars, rmm>>

\* It cleans everything that is in `all', in no particular order.
CleanAtExit(o) ==
  /\ Idle(Hook) /\ o \in exit.todo
  /\ exit' = [exit EXCEPT !.todo = @ \ {o}]
  /\ stack' = [stack EXCEPT ![Hook] = <<Frame(o, "exit")>>]
  /\ UNCHANGED <<mode, heapVars, references, monitor, cleanerMonitor, gcVars, rmm>>

(***************************************************************************)
(* Rmm.shutdown: after some waiting it looks through `all' for the last time. *)
(***************************************************************************)
Shutdown ==
  /\ mode.shutdown /\ rmm.pc = "up" /\ rmm' = [pc |-> "looking", todo |-> all]
  /\ UNCHANGED <<mode, heapVars, references, callVars, gcVars, exit>>

\* bestEffortHasRmmBlockers reads the cleaners one after the other, in no monitor.
LookAt(o) ==
  /\ rmm.pc = "looking" /\ o \in rmm.todo
  /\ rmm' = IF IsBlocker(o) /\ ~IsClean(o) /\ o \in all THEN [pc |-> "refused", todo |-> {}]
            ELSE [rmm EXCEPT !.todo = @ \ {o}]
  /\ UNCHANGED <<mode, heapVars, references, callVars, gcVars, exit>>

TearDown ==
  /\ rmm.pc = "looking" /\ rmm.todo = {} /\ rmm' = [rmm EXCEPT !.pc = "down"]
  /\ UNCHANGED <<mode, heapVars, references, callVars, gcVars, exit>>

Init ==
  /\ mode \in Modes /\ object = <<>> /\ memory = [o \in Objects |-> "none"]
  /\ failed = {} /\ references = [o \in Objects |-> 0]
  /\ monitor = [o \in Objects |-> None] /\ cleanerMonitor = [o \in Objects |-> None]
  /\ stack = [t \in Threads |-> <<>>]
  /\ all = {} /\ collected = {} /\ gone = {}
  /\ exit = [pc |-> "up", todo |-> {}] /\ rmm = [pc |-> "up", todo |-> {}]

Next ==
  \/ \E t \in mode.users : Call(t)
  \/ \E t \in Threads : Step(t)
  \/ \E o \in Objects : Collect(o) \/ Sweep(o) \/ CleanAtExit(o) \/ LookAt(o)
  \/ Exit \/ Shutdown \/ TearDown

Spec == Init /\ [][Next]_memVars

\* Threads go on; what nobody refers to is collected some time, and then cleaned.
FairSpec ==
  /\ Spec
  /\ \A t \in Threads : WF_memVars(Step(t))
  /\ WF_memVars(\E o \in Objects : Collect(o)) /\ WF_memVars(\E o \in Objects : Sweep(o))

(***************************************************************************)
(* Properties.                                                              *)
(***************************************************************************)
\* Type invariant: an object counts at least the references that the program has, those of
\* the slices and columns that have not closed theirs, and the calls of close that have
\* begun and not yet counted (close, slice, incRefCount, OffHeapState).  Monitors belong to
\* threads that are in them, and only what was collected is enqueued.
Owns(o, p) ==
  /\ object[o].owning /\ p \in Range(object[o].parents)
  /\ ~\E t \in Threads : \E k \in DOMAIN stack[t] :
       /\ stack[t][k].obj = o /\ stack[t][k].pc = "parents"
       /\ \E i \in 1 .. stack[t][k].next - 1 : object[o].parents[i] = p
Entering(t, o) == \E k \in DOMAIN stack[t] : stack[t][k].obj = o /\ stack[t][k].pc = "enter"
MemTypeOK ==
  /\ \A o \in Made :
       /\ object[o].refCount \in 0 .. MaxRefs + MaxObjects
       /\ object[o].refCount >= references[o] + Cardinality({c \in Made : Owns(c, o)})
                                              + Cardinality({t \in Threads : Entering(t, o)})
  /\ \A o \in Objects \ Made : memory[o] = "none" /\ references[o] = 0 /\ o \notin all
  /\ \A o \in Objects : monitor[o] # None =>
       \E k \in DOMAIN stack[monitor[o]] : stack[monitor[o]][k].obj = o /\ stack[monitor[o]][k].op = "close"
  /\ collected \subseteq gone

\* Native memory is freed once, and not while there is a reference to anything whose data it
\* holds, unless the virtual machine exits: whichever threads close, slice, forget, collect
\* and clean (MemoryBuffer.close, slice, cleanImpl).
Shared == INSTANCE SharedMemory WITH
  Memories <- Objects,
  state <- memory,
  held <- [m \in Objects |-> \E o \in Made : m \in object[o].backing /\ references[o] > 0],
  exiting <- exit.pc # "up"
ImplementsSharedMemory == Shared!Spec

\* Memory that the program has given up, properly or not, is freed in the end, whatever the
\* threads that close and clean wait for and whatever other memory could not be freed
\* (MemoryCleaner; SlicedBufferCleaner and OffHeapState go on after an exception).
EverythingIsFreed ==
  \A m \in Objects :
    memory[m] = "live" ~>
      \/ memory[m] # "live" \/ m \in failed \/ exit.pc # "up"
      \/ \E o \in Made : m \in object[o].backing /\ references[o] > 0

\* Once Rmm.shutdown has given the memory resource back, nothing that it would have to free
\* is left (bestEffortHasRmmBlockers).
ShutdownIsClean ==
  rmm.pc = "down" => \A m \in Made : memory[m] = "live" /\ IsDeviceBuffer(m) => m \in failed
=============================================================================
