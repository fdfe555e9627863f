---------------------------- MODULE SpillManager ----------------------------
(***************************************************************************)
(* The spilling buffers of python/cudf/cudf/core/buffer: the owners of     *)
(* device memory (SpillableBufferOwner), the manager that moves them to    *)
(* the host (SpillManager), the per-thread spill locks (utils.py) and, as  *)
(* far as these depend on it, the RMM pool that calls the manager back     *)
(* when an allocation fails.                                               *)
(*                                                                         *)
(* A thread runs one call at a time; call[t] is its Python frame.  A step  *)
(* is the code between two points where another thread may act on what it  *)
(* reads or writes: a lock is taken or released, an allocation or a copy   *)
(* is made, a field is read without the buffer's lock.                     *)
(***************************************************************************)
EXTENDS Integers, FiniteSets, FiniteSetsExt

CONSTANTS
  Threads,      \* Python threads
  Frames,       \* SpillLock objects that live in serialized frames
  Buffers,      \* identities of SpillableBufferOwner objects
  Initial,      \* buffers that exist at the start
  Values,       \* contents of a buffer
  Size,         \* Size[b]: bytes of buffer b
  Capacity,     \* bytes of the RMM pool
  DeviceLimit,  \* _device_memory_limit, or None
  Calls,        \* the calls the threads make
  MaxCalls,     \* bound: calls started in a behaviour
  MaxNesting,   \* bound: nested acquire_spill_lock contexts of a thread
  Outside,      \* the holder of pointers that left cuDF
  None, Absent, Lost

AllCalls == {"access", "view", "serialize", "spill", "unspill", "toLimit",
             "create", "createExposed", "createHost", "copy", "drop"}

ASSUME SizesAreNat == Size \in [Buffers -> Nat] /\ IsFiniteSet(Buffers)
ASSUME InitialAreBuffers == Initial \subseteq Buffers
ASSUME CallsAreCalls == Calls \subseteq AllCalls
ASSUME LimitIsIntOrNone == DeviceLimit = None \/ DeviceLimit \in Int
ASSUME BoundsAreNat == MaxCalls \in Nat /\ MaxNesting \in Nat
ASSUME NamesDiffer ==
  /\ None \notin Threads \cup Frames \cup Buffers \cup Values
  /\ Threads \cap Frames = {}
  /\ Outside \notin Threads \cup Frames
  /\ {Absent, Lost} \cap Values = {}
  /\ Absent # Lost

VARIABLES
  type,         \* _ptr_desc["type"], or "absent"
  device,       \* content of the device block (_ptr/_owner), or None
  memoryview,   \* _ptr_desc["memoryview"], or None
  staged,       \* bytes in the local variable of a move in flight, or None
  exposed,      \* _exposed
  spillLocks,   \* _spill_locks: the live SpillLock objects
  rank,         \* the order of _last_accessed, oldest first
  lockedBy,     \* the thread that owns the buffer's RLock, or None
  depth,        \* how often it owns it
  managed,      \* SpillManager._buffers
  call,         \* each thread's frame
  need,         \* nbytes of the thread's spill_device_memory
  context,      \* depth of the thread's acquire_spill_lock contexts
  held,         \* buffers whose device pointer an accessor has
  callsLeft     \* calls that may still be started

memVars == <<type, device, memoryview, staged>>
lockVars == <<lockedBy, depth>>
pinVars == <<exposed, spillLocks>>
userVars == <<context, held, callsLeft>>
vars == <<type, device, memoryview, staged, exposed, spillLocks, rank,
          lockedBy, depth, managed, call, need, context, held, callsLeft>>

Accessors == Threads \cup Frames \cup {Outside}

Labels == {"idle", "limit", "snapshot", "scan", "evict", "wait", "locked",
           "alloc", "settle", "unspilled", "dtoh", "host", "ret", "new",
           "register", "leave"}
Ops == (AllCalls \ {"drop", "copy"}) \cup {"pin", "copyDevice", "copyHost", "none"}

Ranks == 1..Cardinality(Buffers)

IdleCall == [pc |-> "idle", op |-> "none", arg |-> None, dst |-> None,
             back |-> "idle", retryOnce |-> FALSE,
             todo |-> [b \in {} |-> 0], victim |-> None, got |-> 0]

\* Managed buffers, each with the access time by which it was sorted.
Snapshots == UNION {[S -> Ranks] : S \in SUBSET Buffers}

CallType == [pc : Labels, op : Ops, arg : Buffers \cup {None},
             dst : Buffers \cup {None},
             back : {"idle", "wait", "alloc", "new"},
             retryOnce : BOOLEAN,
             todo : Snapshots, victim : Buffers \cup {None}, got : Nat]

Bytes == Values \cup {None}

TypeOK ==
  /\ type \in [Buffers -> {"absent", "gpu", "cpu"}]
  /\ device \in [Buffers -> Bytes]
  /\ memoryview \in [Buffers -> Bytes]
  /\ staged \in [Buffers -> Bytes]
  /\ exposed \in [Buffers -> BOOLEAN]
  /\ spillLocks \in [Buffers -> SUBSET (Threads \cup Frames)]
  /\ rank \in [Buffers -> Ranks]
  /\ lockedBy \in [Buffers -> Threads \cup {None}]
  /\ depth \in [Buffers -> Nat]
  /\ managed \subseteq Buffers
  /\ call \in [Threads -> CallType]
  /\ context \in [Threads -> Nat]
  /\ held \in [Threads \cup {Outside} -> SUBSET Buffers]
  /\ callsLeft \in Nat
-----------------------------------------------------------------------------
(* Properties and helpers of SpillableBufferOwner. *)

Spilled(b) == type[b] # "gpu"
\* Mutants: spillable that forgets one of its two conditions.
SpillableUnlessExposed(b) == ~exposed[b]
SpillableUnlessLocked(b) == spillLocks[b] = {}
Spillable(b) == ~exposed[b] /\ spillLocks[b] = {}

TotalSize(S) == MapThenSumSet(LAMBDA b : Size[b], S)
Used == TotalSize({b \in Buffers : device[b] # None})
Fits(b) == Used + Size[b] <= Capacity

\* _last_accessed = time.monotonic(): b becomes the most recently used.
Touch(b) == rank' = [c \in Buffers |->
                       IF c = b THEN Cardinality(Buffers)
                       ELSE IF rank[c] > rank[b] THEN rank[c] - 1
                       ELSE rank[c]]

At(t, label) == call[t].pc = label
\* The thread's frame becomes this one.
Frame(t, frame) == call' = [call EXCEPT ![t] = frame]
Goto(t, label) == Frame(t, [call[t] EXCEPT !.pc = label])

\* The call returns or raises.  A device copy still has its context to leave.
Return(t) ==
  Frame(t, IF call[t].op = "copyDevice" THEN [IdleCall EXCEPT !.pc = "leave"]
           ELSE IdleCall)

\* On from the scan to what it was made for.
Proceed(t) == IF call[t].back = "idle" THEN Return(t) ELSE Goto(t, call[t].back)

\* with self.lock: the lock is free, or this thread has it already.
CanLock(t, b) == lockedBy[b] \in {None, t}
Lock(t, b) == /\ lockedBy' = [lockedBy EXCEPT ![b] = t]
              /\ depth' = [depth EXCEPT ![b] = @ + 1]
Unlock(t, b) == /\ depth' = [depth EXCEPT ![b] = @ - 1]
                /\ lockedBy' = IF depth[b] = 1 THEN [lockedBy EXCEPT ![b] = None]
                               ELSE lockedBy
-----------------------------------------------------------------------------
(* acquire_spill_lock: one SpillLock per thread, alive while count > 0.    *)

\* The thread's SpillLock object dies: every WeakSet forgets it, and the
\* pointers obtained under it are no longer valid.
PopContext(t) ==
  /\ context' = [context EXCEPT ![t] = @ - 1]
  /\ IF context[t] = 1
     THEN /\ spillLocks' = [b \in Buffers |-> spillLocks[b] \ {t}]
          /\ held' = [held EXCEPT ![t] = {}]
     ELSE UNCHANGED <<spillLocks, held>>

EnterContext(t) ==
  /\ At(t, "idle") /\ callsLeft > 0 /\ context[t] < MaxNesting
  /\ context' = [context EXCEPT ![t] = @ + 1]
  /\ callsLeft' = callsLeft - 1
  /\ UNCHANGED <<memVars, pinVars, rank, lockVars, managed, call, need, held>>

\* Mutant: __exit__ without its __enter__.
ExitAnyContext(t) ==
  /\ At(t, "idle")
  /\ PopContext(t)
  /\ UNCHANGED <<memVars, exposed, rank, lockVars, managed, call, need, callsLeft>>

ExitContext(t) ==
  /\ At(t, "idle") /\ context[t] > 0
  /\ PopContext(t)
  /\ UNCHANGED <<memVars, exposed, rank, lockVars, managed, call, need, callsLeft>>
-----------------------------------------------------------------------------
(* Starting a call. *)

Start(t, name, frame) ==
  /\ name \in Calls
  /\ At(t, "idle") /\ callsLeft > 0
  /\ callsLeft' = callsLeft - 1
  /\ Frame(t, frame)

\* The callers have references to the buffer: it exists and is not still
\* inside the call that makes it.
Existing(b) == type[b] # "absent" /\ \A t \in Threads : call[t].dst # b

\* get_ptr: outside a context the buffer is exposed for good, and mark_exposed
\* spills to the device limit before it takes the lock.
StartAccess(t, b) ==
  /\ Existing(b)
  /\ Start(t, "access",
           IF context[t] = 0
           THEN [IdleCall EXCEPT !.pc = "limit", !.op = "access", !.arg = b,
                                 !.back = "wait"]
           ELSE [IdleCall EXCEPT !.pc = "wait", !.op = "pin", !.arg = b])
  /\ UNCHANGED <<memVars, pinVars, rank, lockVars, managed, need, context, held>>

\* memoryview, serialize and a manual spill: first the buffer's lock.
StartLocked(t, b, name) ==
  /\ name \in {"view", "serialize", "spill", "unspill"}
  /\ Existing(b)
  /\ Start(t, name, [IdleCall EXCEPT !.pc = "wait", !.op = name, !.arg = b])
  /\ UNCHANGED <<memVars, pinVars, rank, lockVars, managed, need, context, held>>

StartToLimit(t) ==
  /\ Start(t, "toLimit", [IdleCall EXCEPT !.pc = "limit", !.op = "toLimit"])
  /\ UNCHANGED <<memVars, pinVars, rank, lockVars, managed, need, context, held>>

\* Nobody has the identity b: a new buffer may take it.
Free(b) == type[b] = "absent" /\ \A t \in Threads : call[t].dst # b

\* as_buffer of a new device allocation.
StartCreate(t, b, name) ==
  /\ name \in {"create", "createExposed"}
  /\ Free(b)
  /\ Start(t, name, [IdleCall EXCEPT !.pc = "new", !.op = name, !.dst = b])
  /\ UNCHANGED <<memVars, pinVars, rank, lockVars, managed, need, context, held>>

\* as_buffer of host memory: from_host_memory makes an already spilled buffer.
StartCreateHost(t, b, v) ==
  /\ Free(b)
  /\ Start(t, "createHost",
           [IdleCall EXCEPT !.pc = "register", !.op = "createHost", !.dst = b])
  /\ type' = [type EXCEPT ![b] = "cpu"]
  /\ memoryview' = [memoryview EXCEPT ![b] = v]
  /\ Touch(b)
  /\ UNCHANGED <<device, staged, pinVars, lockVars, managed, need, context, held>>

\* copy(deep=True): is_spilled is read without the lock.  A spilled buffer is
\* copied through its memoryview, another one within acquire_spill_lock().
StartCopy(t, b, c) ==
  /\ Existing(b) /\ Free(c)
  /\ Start(t, "copy",
           [IdleCall EXCEPT !.pc = "wait", !.arg = b, !.dst = c,
                            !.op = IF Spilled(b) THEN "copyHost" ELSE "copyDevice"])
  /\ context' = [context EXCEPT ![t] = IF Spilled(b) THEN @ ELSE @ + 1]
  /\ UNCHANGED <<memVars, pinVars, rank, lockVars, managed, need, held>>
-----------------------------------------------------------------------------
(* SpillManager.spill_to_device_limit and spill_device_memory.             *)

\* The sum is read without locks, and the scan follows whatever its sign.
MeasureLimit(t) ==
  /\ At(t, "limit")
  /\ IF DeviceLimit = None
     THEN Proceed(t) /\ UNCHANGED need
     ELSE /\ Goto(t, "snapshot")
          /\ need' = [need EXCEPT ![t] =
               TotalSize({b \in managed : ~Spilled(b)}) - DeviceLimit]
  /\ UNCHANGED <<memVars, pinVars, rank, lockVars, managed, userVars>>

\* Mutant: the snapshot is not sorted by access time.
SnapshotUnsorted(t) ==
  /\ At(t, "snapshot")
  /\ Frame(t, [call[t] EXCEPT !.pc = "scan", !.got = 0,
                              !.todo = [b \in managed |-> 1]])
  /\ UNCHANGED <<memVars, pinVars, rank, lockVars, managed, need, userVars>>

Snapshot(t) ==
  /\ At(t, "snapshot")
  /\ Frame(t, [call[t] EXCEPT !.pc = "scan", !.got = 0,
                              !.todo = [b \in managed |-> rank[b]]])
  /\ UNCHANGED <<memVars, pinVars, rank, lockVars, managed, need, userVars>>

\* The next buffer of the snapshot, sorted by the last access it recorded.
Oldest(t, b) == /\ b \in DOMAIN call[t].todo
                /\ \A c \in DOMAIN call[t].todo : call[t].todo[b] <= call[t].todo[c]
Without(t, b) == [c \in DOMAIN call[t].todo \ {b} |-> call[t].todo[c]]

\* buf.lock.acquire(blocking=False), not is_spilled, spillable.
Evictable(t, b) == CanLock(t, b) /\ ~Spilled(b) /\ Spillable(b)

\* Mutant: the scan ends at the first buffer it cannot take.
ScanStops(t, b) ==
  /\ At(t, "scan") /\ Oldest(t, b)
  /\ ~Evictable(t, b)
  /\ Frame(t, [call[t] EXCEPT !.todo = [c \in {} |-> 0]])
  /\ UNCHANGED <<memVars, pinVars, rank, lockVars, managed, need, userVars>>

ScanSkip(t, b) ==
  /\ At(t, "scan") /\ Oldest(t, b)
  /\ ~Evictable(t, b)
  /\ Frame(t, [call[t] EXCEPT !.todo = Without(t, b)])
  /\ UNCHANGED <<memVars, pinVars, rank, lockVars, managed, need, userVars>>

\* The bytes are copied to host_mem first ...
Evict(t, b) ==
  /\ At(t, "scan") /\ Oldest(t, b)
  /\ Evictable(t, b)
  /\ Lock(t, b)
  /\ staged' = [staged EXCEPT ![b] = device[b]]
  /\ Frame(t, [call[t] EXCEPT !.pc = "evict", !.victim = b,
                              !.todo = Without(t, b)])
  /\ UNCHANGED <<type, device, memoryview, pinVars, rank, managed, need, userVars>>

\* ... and then become the buffer's memoryview; the device block is freed.
ToHost(b) == /\ memoryview' = [memoryview EXCEPT ![b] = staged[b]]
             /\ staged' = [staged EXCEPT ![b] = None]
             /\ device' = [device EXCEPT ![b] = None]
             /\ type' = [type EXCEPT ![b] = "cpu"]

\* Mutant: one buffer is enough, whatever nbytes asks for.
EvictOne(t) ==
  LET b == call[t].victim IN
  /\ At(t, "evict")
  /\ ToHost(b)
  /\ Unlock(t, b)
  /\ Frame(t, [call[t] EXCEPT !.pc = "scan", !.got = @ + Size[b],
                              !.victim = None, !.todo = [c \in {} |-> 0]])
  /\ UNCHANGED <<pinVars, rank, managed, need, userVars>>

\* The loop breaks as soon as nbytes are spilled.
EvictEnd(t) ==
  LET b == call[t].victim IN
  /\ At(t, "evict")
  /\ ToHost(b)
  /\ Unlock(t, b)
  /\ Frame(t, [call[t] EXCEPT !.pc = "scan", !.got = @ + Size[b],
                              !.victim = None,
                              !.todo = IF call[t].got + Size[b] >= need[t]
                                       THEN [c \in {} |-> 0] ELSE @])
  /\ UNCHANGED <<pinVars, rank, managed, need, userVars>>

ScanDone(t) == At(t, "scan") /\ DOMAIN call[t].todo = {}
OutOfMemory(t) == call[t].back \in {"alloc", "new"}

\* The scan was spill_to_device_limit's, or the handler freed something and
\* RMM tries the allocation again.
Resume(t) ==
  /\ ScanDone(t)
  /\ OutOfMemory(t) => call[t].got > 0
  /\ Proceed(t)
  /\ UNCHANGED <<memVars, pinVars, rank, lockVars, managed, need, userVars>>

\* Mutant: retry_once is not reset by the retry.
ScanForEver(t) ==
  /\ ScanDone(t) /\ OutOfMemory(t) /\ call[t].got = 0 /\ call[t].retryOnce
  /\ Goto(t, "snapshot")
  /\ UNCHANGED <<memVars, pinVars, rank, lockVars, managed, need, userVars>>

\* _out_of_memory_handle once more, after gc.collect().
ScanAgain(t) ==
  /\ ScanDone(t) /\ OutOfMemory(t) /\ call[t].got = 0 /\ call[t].retryOnce
  /\ Frame(t, [call[t] EXCEPT !.pc = "snapshot", !.retryOnce = FALSE])
  /\ UNCHANGED <<memVars, pinVars, rank, lockVars, managed, need, userVars>>

\* Mutant: the exception leaves the lock behind.
GiveUpLocked(t) ==
  /\ ScanDone(t) /\ OutOfMemory(t) /\ call[t].got = 0 /\ ~call[t].retryOnce
  /\ staged' = IF call[t].back = "alloc"
               THEN [staged EXCEPT ![call[t].arg] = None] ELSE staged
  /\ Return(t)
  /\ UNCHANGED <<type, device, memoryview, pinVars, rank, lockVars, managed, need,
                 userVars>>

\* The handler returns False and RMM raises MemoryError.  A buffer that was
\* being unspilled has already lost its memoryview to the failed call.
GiveUp(t) ==
  /\ ScanDone(t) /\ OutOfMemory(t) /\ call[t].got = 0 /\ ~call[t].retryOnce
  /\ IF call[t].back = "alloc"
     THEN /\ staged' = [staged EXCEPT ![call[t].arg] = None]
          /\ Unlock(t, call[t].arg)
     ELSE UNCHANGED <<staged, lockVars>>
  /\ Return(t)
  /\ UNCHANGED <<type, device, memoryview, pinVars, rank, managed, need, userVars>>
-----------------------------------------------------------------------------
(* Under the buffer's lock: spill, mark_exposed, spill_lock, memoryview.   *)

Acquire(t) ==
  /\ At(t, "wait")
  /\ CanLock(t, call[t].arg)
  /\ Lock(t, call[t].arg)
  /\ Goto(t, "locked")
  /\ UNCHANGED <<memVars, pinVars, rank, managed, need, userVars>>

ToDevice(t) == call[t].op \in {"access", "pin", "unspill", "copyDevice"}
ToView(t) == call[t].op \in {"view", "copyHost"}

\* Mutant: mark_exposed and spill_lock forget to unspill.
OnAnyDevice(t) ==
  /\ At(t, "locked") /\ ToDevice(t)
  /\ Goto(t, "unspilled")
  /\ UNCHANGED <<memVars, pinVars, rank, lockVars, managed, need, userVars>>

\* spill("gpu") returns at once.
OnDevice(t) ==
  /\ At(t, "locked") /\ ToDevice(t)
  /\ ~Spilled(call[t].arg)
  /\ Goto(t, "unspilled")
  /\ UNCHANGED <<memVars, pinVars, rank, lockVars, managed, need, userVars>>

\* Mutant: pop("memoryview", None), with no KeyError for a missing one.
PopMissing(t) ==
  LET b == call[t].arg IN
  /\ At(t, "locked") /\ ToDevice(t)
  /\ Spilled(b) /\ Spillable(b)
  /\ staged' = [staged EXCEPT ![b] = memoryview[b]]
  /\ memoryview' = [memoryview EXCEPT ![b] = None]
  /\ Goto(t, "alloc")
  /\ UNCHANGED <<type, device, pinVars, rank, lockVars, managed, need, userVars>>

\* Mutant: the type says "gpu" before the allocation that may call back.
PopEarly(t) ==
  LET b == call[t].arg IN
  /\ At(t, "locked") /\ ToDevice(t)
  /\ Spilled(b) /\ Spillable(b) /\ memoryview[b] # None
  /\ staged' = [staged EXCEPT ![b] = memoryview[b]]
  /\ memoryview' = [memoryview EXCEPT ![b] = None]
  /\ type' = [type EXCEPT ![b] = "gpu"]
  /\ Goto(t, "alloc")
  /\ UNCHANGED <<device, pinVars, rank, lockVars, managed, need, userVars>>

\* _ptr_desc.pop("memoryview"), evaluated before the allocation it feeds.
PopMemoryview(t) ==
  LET b == call[t].arg IN
  /\ At(t, "locked") /\ ToDevice(t)
  /\ Spilled(b) /\ Spillable(b) /\ memoryview[b] # None
  /\ staged' = [staged EXCEPT ![b] = memoryview[b]]
  /\ memoryview' = [memoryview EXCEPT ![b] = None]
  /\ Goto(t, "alloc")
  /\ UNCHANGED <<type, device, pinVars, rank, lockVars, managed, need, userVars>>

\* ValueError of an unspillable buffer, KeyError of a missing memoryview.
Raises(t) ==
  LET b == call[t].arg IN
  /\ At(t, "locked")
  /\ \/ /\ ToDevice(t) \/ ToView(t)
        /\ Spilled(b) /\ (Spillable(b) => memoryview[b] = None)
     \/ /\ call[t].op = "serialize"
        /\ Spilled(b) /\ (Spillable(b) => memoryview[b] = None)
     \/ /\ call[t].op = "spill"
        /\ ~Spilled(b) /\ ~Spillable(b)
  /\ Unlock(t, b)
  /\ Return(t)
  /\ UNCHANGED <<memVars, pinVars, rank, managed, need, userVars>>

\* Mutant: the new block is filled from _ptr_desc, after the pop.
AllocEmpty(t) ==
  LET b == call[t].arg IN
  /\ At(t, "alloc") /\ Fits(b)
  /\ device' = [device EXCEPT ![b] = memoryview[b]]
  /\ staged' = [staged EXCEPT ![b] = None]
  /\ Goto(t, "settle")
  /\ UNCHANGED <<type, memoryview, pinVars, rank, lockVars, managed, need, userVars>>

\* rmm.DeviceBuffer.to_device allocates and copies.
Alloc(t) ==
  LET b == call[t].arg IN
  /\ At(t, "alloc") /\ Fits(b)
  /\ device' = [device EXCEPT ![b] = staged[b]]
  /\ staged' = [staged EXCEPT ![b] = None]
  /\ Goto(t, "settle")
  /\ UNCHANGED <<type, memoryview, pinVars, rank, lockVars, managed, need, userVars>>

\* The buffer whose device block the thread is asking RMM for.
Wanted(t) == IF At(t, "alloc") THEN call[t].arg ELSE call[t].dst

\* RMM calls _out_of_memory_handle with the bytes it was asked for.
AllocFails(t) ==
  /\ call[t].pc \in {"alloc", "new"}
  /\ ~Fits(Wanted(t))
  /\ Frame(t, [call[t] EXCEPT !.pc = "snapshot", !.back = call[t].pc,
                              !.retryOnce = TRUE])
  /\ need' = [need EXCEPT ![t] = Size[Wanted(t)]]
  /\ UNCHANGED <<memVars, pinVars, rank, lockVars, managed, userVars>>

Settle(t) ==
  /\ At(t, "settle")
  /\ type' = [type EXCEPT ![call[t].arg] = "gpu"]
  /\ Goto(t, "unspilled")
  /\ UNCHANGED <<device, memoryview, staged, pinVars, rank, lockVars, managed,
                 need, userVars>>

MarkExposed(t) ==
  LET b == call[t].arg IN
  /\ At(t, "unspilled") /\ call[t].op = "access"
  /\ exposed' = [exposed EXCEPT ![b] = TRUE]
  /\ Touch(b)
  /\ Unlock(t, b)
  /\ Goto(t, "ret")
  /\ UNCHANGED <<memVars, spillLocks, managed, need, userVars>>

SpillLock(t) ==
  LET b == call[t].arg IN
  /\ At(t, "unspilled") /\ call[t].op \in {"pin", "copyDevice"}
  /\ spillLocks' = [spillLocks EXCEPT ![b] = @ \cup {t}]
  /\ Unlock(t, b)
  /\ Goto(t, "ret")
  /\ UNCHANGED <<memVars, exposed, rank, managed, need, userVars>>

UnspillEnd(t) ==
  /\ At(t, "unspilled") /\ call[t].op = "unspill"
  /\ Unlock(t, call[t].arg)
  /\ Return(t)
  /\ UNCHANGED <<memVars, pinVars, rank, managed, need, userVars>>

\* get_ptr reads _ptr after the lock was released.
ReturnPtr(t) ==
  LET b == call[t].arg
      a == IF call[t].op = "access" THEN Outside ELSE t
  IN /\ At(t, "ret")
     /\ held' = [held EXCEPT ![a] = @ \cup {b}]
     /\ IF a = t THEN Touch(b) ELSE UNCHANGED rank
     /\ IF call[t].op = "copyDevice" THEN Goto(t, "new") ELSE Return(t)
     /\ UNCHANGED <<memVars, pinVars, lockVars, managed, need, context, callsLeft>>

\* spill("cpu") of an unpinned buffer, by hand or for a memoryview.
SpillBegin(t) ==
  LET b == call[t].arg IN
  /\ At(t, "locked") /\ (ToView(t) \/ call[t].op = "spill")
  /\ ~Spilled(b) /\ Spillable(b)
  /\ staged' = [staged EXCEPT ![b] = device[b]]
  /\ Goto(t, "dtoh")
  /\ UNCHANGED <<type, device, memoryview, pinVars, rank, lockVars, managed, need,
                 userVars>>

SpillEnd(t) ==
  /\ At(t, "dtoh")
  /\ ToHost(call[t].arg)
  /\ Goto(t, "host")
  /\ UNCHANGED <<pinVars, rank, lockVars, managed, need, userVars>>

\* Already on the host.
OnHost(t) ==
  LET b == call[t].arg IN
  /\ At(t, "locked")
  /\ \/ call[t].op = "spill" /\ Spilled(b)
     \/ /\ ToView(t) \/ call[t].op = "serialize"
        /\ Spilled(b) /\ Spillable(b) /\ memoryview[b] # None
  /\ Goto(t, "host")
  /\ UNCHANGED <<memVars, pinVars, rank, lockVars, managed, need, userVars>>

\* A host view, or a copy that shares the source's host memory.
ReturnView(t, bytes) ==
  LET b == call[t].arg  c == call[t].dst IN
  /\ Unlock(t, b)
  /\ IF call[t].op = "copyHost"
     THEN /\ type' = [type EXCEPT ![c] = "cpu"]
          /\ memoryview' = [memoryview EXCEPT ![c] = bytes]
          /\ Touch(c)
          /\ Goto(t, "register")
     ELSE /\ Return(t)
          /\ UNCHANGED <<type, memoryview, rank>>
  /\ UNCHANGED <<device, staged, pinVars, managed, need, userVars>>

ReturnHost(t) == At(t, "host") /\ ReturnView(t, memoryview[call[t].arg])

\* Mutant: the view of an unspillable buffer is taken from _ptr_desc.
ViewMissing(t) ==
  /\ At(t, "locked") /\ ToView(t)
  /\ ~Spilled(call[t].arg) /\ ~Spillable(call[t].arg)
  /\ ReturnView(t, memoryview[call[t].arg])

\* memoryview of an unspillable buffer: a host copy of the device memory.
ViewPinned(t) ==
  /\ At(t, "locked") /\ ToView(t)
  /\ ~Spilled(call[t].arg) /\ ~Spillable(call[t].arg)
  /\ ReturnView(t, device[call[t].arg])

\* serialize of an unspilled buffer: a SpillLock that lives in the frame.  With
\* no member of Frames left (a bound), the frame is dropped at once.
FreeFrames == {f \in Frames : \A b \in Buffers : f \notin spillLocks[b]}
Serialize(t) ==
  LET b == call[t].arg IN
  /\ At(t, "locked") /\ call[t].op = "serialize"
  /\ ~Spilled(b)
  /\ IF FreeFrames = {} THEN UNCHANGED spillLocks
     ELSE \E f \in FreeFrames : spillLocks' = [spillLocks EXCEPT ![b] = @ \cup {f}]
  /\ Unlock(t, b)
  /\ Return(t)
  /\ UNCHANGED <<memVars, exposed, rank, managed, need, userVars>>
-----------------------------------------------------------------------------
(* New buffers. *)

\* The allocation succeeded and the owner is made; a device copy takes the
\* content of the buffer whose pointer the call holds.
NewBlock(t, v) ==
  LET c == call[t].dst IN
  /\ At(t, "new") /\ Fits(c)
  /\ call[t].op = "copyDevice" => v = device[call[t].arg]
  /\ device' = [device EXCEPT ![c] = v]
  /\ type' = [type EXCEPT ![c] = "gpu"]
  /\ exposed' = [exposed EXCEPT ![c] = call[t].op = "createExposed"]
  /\ held' = [held EXCEPT ![Outside] =
                IF call[t].op = "createExposed" THEN @ \cup {c} ELSE @]
  /\ Touch(c)
  /\ Goto(t, "register")
  /\ UNCHANGED <<memoryview, staged, spillLocks, lockVars, managed, need, context,
                 callsLeft>>

\* SpillManager.add.
Register(t) ==
  LET c == call[t].dst IN
  /\ At(t, "register")
  /\ managed' = IF Size[c] > 0 /\ ~exposed[c] THEN managed \cup {c} ELSE managed
  /\ Frame(t, [call[t] EXCEPT !.pc = "limit", !.back = "idle"])
  /\ UNCHANGED <<memVars, pinVars, rank, lockVars, need, userVars>>

LeaveCopy(t) ==
  /\ At(t, "leave")
  /\ PopContext(t)
  /\ Frame(t, IdleCall)
  /\ UNCHANGED <<memVars, exposed, rank, lockVars, managed, need, callsLeft>>
-----------------------------------------------------------------------------
(* What users do between calls. *)

\* A kernel, or a library outside cuDF, writes through a pointer it holds.
Write(a, b, v) ==
  /\ a \in Threads => At(a, "idle")
  /\ b \in held[a] /\ device[b] # None /\ v # device[b]
  /\ device' = [device EXCEPT ![b] = v]
  /\ UNCHANGED <<type, memoryview, staged, pinVars, rank, lockVars, managed, call,
                 need, userVars>>

ReleaseFrame(f) ==
  /\ f \notin FreeFrames
  /\ spillLocks' = [b \in Buffers |-> spillLocks[b] \ {f}]
  /\ UNCHANGED <<memVars, exposed, rank, lockVars, managed, call, need, userVars>>

\* The last reference goes: no call, snapshot, frame or context has one.
Referenced(b) == \/ \E t \in Threads : \/ b \in {call[t].arg, call[t].dst, call[t].victim}
                                        \/ b \in DOMAIN call[t].todo
                                        \/ b \in held[t]
                 \/ spillLocks[b] \cap Frames # {}

Drop(b) ==
  /\ "drop" \in Calls
  /\ Existing(b) /\ ~Referenced(b)
  /\ type' = [type EXCEPT ![b] = "absent"]
  /\ device' = [device EXCEPT ![b] = None]
  /\ memoryview' = [memoryview EXCEPT ![b] = None]
  /\ exposed' = [exposed EXCEPT ![b] = FALSE]
  /\ spillLocks' = [spillLocks EXCEPT ![b] = {}]
  /\ managed' = managed \ {b}
  /\ held' = [held EXCEPT ![Outside] = @ \ {b}]
  /\ UNCHANGED <<staged, rank, lockVars, call, need, context, callsLeft>>
-----------------------------------------------------------------------------
\* Some buffers exist, those that fit on the device and the others spilled.
Init ==
  /\ \E content \in [Initial -> Values], resident \in SUBSET Initial :
       /\ TotalSize(resident) <= Capacity
       /\ device = [b \in Buffers |-> IF b \in resident THEN content[b] ELSE None]
       /\ memoryview = [b \in Buffers |->
                          IF b \in Initial \ resident THEN content[b] ELSE None]
       /\ type = [b \in Buffers |-> IF b \in resident THEN "gpu"
                                    ELSE IF b \in Initial THEN "cpu" ELSE "absent"]
  /\ staged = [b \in Buffers |-> None]
  /\ exposed = [b \in Buffers |-> FALSE]
  /\ spillLocks = [b \in Buffers |-> {}]
  /\ rank \in [Buffers -> Ranks]
  /\ \A b, c \in Buffers : b # c => rank[b] # rank[c]
  /\ lockedBy = [b \in Buffers |-> None]
  /\ depth = [b \in Buffers |-> 0]
  /\ managed = {b \in Initial : Size[b] > 0}
  /\ call = [t \in Threads |-> IdleCall]
  /\ need = [t \in Threads |-> 0]
  /\ context = [t \in Threads |-> 0]
  /\ held = [a \in Threads \cup {Outside} |-> {}]
  /\ callsLeft = MaxCalls

\* A thread carries on with its call.
Step(t) ==
  \/ MeasureLimit(t) \/ Snapshot(t)
  \/ \E b \in Buffers : ScanSkip(t, b) \/ Evict(t, b)
  \/ EvictEnd(t) \/ Resume(t) \/ ScanAgain(t) \/ GiveUp(t)
  \/ Acquire(t) \/ OnDevice(t) \/ PopMemoryview(t) \/ Raises(t)
  \/ Alloc(t) \/ AllocFails(t) \/ Settle(t)
  \/ MarkExposed(t) \/ SpillLock(t) \/ UnspillEnd(t) \/ ReturnPtr(t)
  \/ SpillBegin(t) \/ SpillEnd(t) \/ OnHost(t) \/ ReturnHost(t)
  \/ ViewPinned(t) \/ Serialize(t)
  \/ \E v \in Values : NewBlock(t, v)
  \/ Register(t) \/ LeaveCopy(t)

\* A thread starts a call, or opens or closes a context.
Begin(t) ==
  \/ EnterContext(t) \/ ExitContext(t) \/ StartToLimit(t)
  \/ \E b \in Buffers :
       \/ StartAccess(t, b)
       \/ \E name \in Calls : StartLocked(t, b, name) \/ StartCreate(t, b, name)
       \/ \E v \in Values : StartCreateHost(t, b, v)
       \/ \E c \in Buffers : StartCopy(t, b, c)

Users == \/ \E a \in Threads \cup {Outside}, b \in Buffers, v \in Values : Write(a, b, v)
         \/ \E f \in Frames : ReleaseFrame(f)
         \/ \E b \in Buffers : Drop(b)

Next == (\E t \in Threads : Step(t) \/ Begin(t)) \/ Users

Spec == Init /\ [][Next]_vars

\* The scheduler runs every thread that can go on; nobody has to start a call,
\* leave a context, write or drop anything.
FairSpec == Spec /\ \A t \in Threads : WF_vars(Step(t))
=============================================================================
