-------------------------- MODULE SpillProperties --------------------------
(***************************************************************************)
(* What makes SpillManager correct.                                        *)
(***************************************************************************)
EXTENDS SpillManager

(* Pointers. *)

\* A device pointer that a thread, a serialized frame or the outside world has
\* points at the buffer's live device block: no spill took the block away, in
\* any interleaving of accesses, views and evictions, and get_ptr's read of
\* _ptr after the unlock never returns the 0 of a spilled buffer.
PointersValid ==
  \A b \in Buffers :
    /\ \A a \in Threads \cup {Outside} :
         b \in held[a] => type[b] = "gpu" /\ device[b] # None
    /\ spillLocks[b] \cap Frames # {} => type[b] = "gpu" /\ device[b] # None

\* Whoever keeps a buffer on the device (a spill lock or the exposed flag) does
\* so only for a buffer that is there, so _ptr_desc never says "cpu" of an
\* unspillable buffer and the asserts and ValueErrors about it are unreachable.
UnspillableIsOnDevice == \A b \in Buffers : ~Spillable(b) => type[b] = "gpu"

(* Moves. *)

\* The buffers a thread has in flight between host and device.
Moving(t) ==
  {b \in Buffers :
     \/ /\ b = call[t].arg
        /\ \/ call[t].pc \in {"alloc", "settle", "dtoh"}
           \/ call[t].back = "alloc" /\ call[t].pc \in {"snapshot", "scan", "evict"}
     \/ At(t, "evict") /\ b = call[t].victim}

\* A buffer is moved by one thread at a time and only under its lock, and the
\* out-of-memory handler, called back in the middle of an unspill by a thread
\* that can enter its own RLock again, never moves the buffer being unspilled.
MovesAreExclusive ==
  /\ \A b \in Buffers, t \in Threads :
       b \in Moving(t) => /\ lockedBy[b] = t
                          /\ depth[b] = 1
                          /\ \A u \in Threads \ {t} : b \notin Moving(u)

\* Between calls a thread owns no buffer lock, whichever way the call ended:
\* MemoryError, KeyError and ValueError all leave the with block.
LocksAreReturned ==
  \A b \in Buffers : /\ lockedBy[b] # None => ~At(lockedBy[b], "idle")
                     /\ lockedBy[b] = None <=> depth[b] = 0

(* Contents. *)

\* The content of a buffer, wherever its bytes are.
Content(b) == IF type[b] = "absent" THEN Absent
              ELSE IF device[b] # None THEN device[b]
              ELSE IF memoryview[b] # None THEN memoryview[b]
              ELSE IF staged[b] # None THEN staged[b]
              ELSE Lost

Store == INSTANCE BufferStore
           WITH value <- [b \in Buffers |-> Content(b)],
                holders <- [b \in Buffers |->
                  spillLocks[b] \cup IF exposed[b] THEN {Outside} ELSE {}]

\* Moving a buffer is invisible: the system behaves as the store of contents
\* that BufferStore describes, which knows nothing of host and device.
ImplementsStore == Store!StoreSpec

\* A deep copy has the content its source has at the moment the copy is made,
\* although is_spilled is read without the lock and the source may be spilled,
\* unspilled or pinned by others before the bytes are taken.
CopiesAreExact ==
  [][\A t \in Threads, c \in Buffers :
       /\ call[t].op \in {"copyHost", "copyDevice"} /\ call[t].dst = c
       /\ type[c] = "absent" /\ type'[c] # "absent"
       => Content(c)' = Content(call[t].arg)]_vars

\* Content is destroyed in one way only: an unspill whose allocation failed for
\* good, of a buffer nobody had on the device.
LostOnlyByMemoryError ==
  [][\A b \in Buffers :
       Content(b) # Lost /\ Content(b)' = Lost
       => \E t \in Threads : /\ call[t].arg = b /\ call[t].back = "alloc"
                              /\ ScanDone(t) /\ call[t].got = 0]_vars

\* The content of an existing buffer survives: class docstring, "Unspill is
\* triggered automatically when accessing the data of the buffer".
NothingLost == \A b \in Buffers : Content(b) # Lost

\* "Once the exposure status becomes True, it will never change back": an
\* exposed buffer stays exposed, on the device and in its block until dropped.
ExposureIsPermanent ==
  [][\A b \in Buffers :
       exposed[b] => \/ exposed'[b] /\ type'[b] = "gpu" /\ device'[b] # None
                     \/ type'[b] = "absent"]_vars

(* Eviction. *)

\* The handler lets MemoryError through only when no managed buffer that could
\* be spilled is left on the device (for one thread; another thread's lock may
\* hide a buffer from the handler).
FailsOnlyWhenNothingIsLeft ==
  [][\A t \in Threads :
       At(t, "scan") /\ call[t].back \in {"alloc", "new"} /\ ~(call'[t].pc \in {"scan", "alloc", "new", "evict", "snapshot"})
       => \A b \in managed : Spilled(b) \/ ~Spillable(b)]_vars

\* A buffer is evicted only when every managed buffer used less recently is
\* spilled already or cannot be spilled (for one thread).
EvictsLeastRecentlyUsed ==
  [][\A t \in Threads, b \in Buffers :
       At(t, "scan") /\ call'[t].pc = "evict" /\ depth'[b] > depth[b]
       => \A c \in managed : rank[c] < rank[b] => Spilled(c) \/ ~Spillable(c)]_vars

Unspilled == {b \in managed : ~Spilled(b)}

\* "spill_to_device_limit" ends with the unspilled buffers below the limit, or
\* with every one of them unspillable (for one thread).
LimitIsKept ==
  [][\A t \in Threads :
       At(t, "scan") /\ ~(call[t].back \in {"alloc", "new"})
       /\ ~(call'[t].pc \in {"scan", "evict"})
       => \/ TotalSize(Unspilled) <= DeviceLimit
          \/ \A b \in Unspilled : ~Spillable(b)]_vars

(* Progress. *)

\* Every call returns: no two threads wait for each other's locks, and no
\* allocation is retried for ever while threads evict each other's buffers.
CallsReturn == \A t \in Threads : ~At(t, "idle") ~> At(t, "idle")

-----------------------------------------------------------------------------
(* The inductive invariant behind PointersValid, MovesAreExclusive and      *)
(* LocksAreReturned.                                                        *)

\* The thread is between the allocation and the spilled buffer's new block.
Unspilling(t) == \/ At(t, "alloc")
                 \/ call[t].back = "alloc" /\ call[t].pc \in {"snapshot", "scan", "evict"}

\* The thread is inside `with self.lock` of its argument.
UnderLock(t) == \/ call[t].pc \in {"locked", "settle", "unspilled", "dtoh", "host"}
                \/ Unspilling(t)

\* Every owner of a lock is where the code has it, and owns it once.
LockInv(b) ==
  /\ depth[b] = IF lockedBy[b] = None THEN 0 ELSE 1
  /\ \A t \in Threads :
       lockedBy[b] = t => \/ UnderLock(t) /\ call[t].arg = b
                          \/ At(t, "evict") /\ call[t].victim = b

\* What holds of a buffer at any time.
BufferInv(b) ==
  /\ type[b] = "gpu" => device[b] # None
  /\ ~Spillable(b) => type[b] = "gpu"
  /\ \A t \in Threads : b \in held[t] => t \in spillLocks[b]
  /\ b \in held[Outside] => exposed[b]

\* The argument of a call exists, and what the call has found out about it
\* still holds: nobody else moves a buffer whose lock is taken.
ArgInv(t) ==
  LET b == call[t].arg IN
  /\ b # None => type[b] # "absent"
  /\ call[t].pc \in {"wait", "ret"} \/ UnderLock(t) => b # None
  /\ UnderLock(t) => lockedBy[b] = t
  /\ Unspilling(t) => type[b] = "cpu" /\ Spillable(b) /\ staged[b] # None
  /\ At(t, "settle") => type[b] = "cpu" /\ Spillable(b) /\ device[b] # None
  /\ At(t, "unspilled") => type[b] = "gpu"
  /\ At(t, "dtoh") => type[b] = "gpu" /\ Spillable(b)
  /\ At(t, "ret") => IF call[t].op = "access" THEN exposed[b] ELSE t \in spillLocks[b]

VictimInv(t) ==
  LET b == call[t].victim IN
  At(t, "evict") => /\ b # None
                    /\ lockedBy[b] = t
                    /\ type[b] = "gpu" /\ Spillable(b)

\* The call's new buffer exists.
Made(t) == \/ At(t, "register")
           \/ call[t].back = "idle" /\ call[t].pc \in {"limit", "snapshot", "scan", "evict"}

\* The buffer a call is making does not exist before it has been made, and is
\* made by no other call.
DstInv(t) ==
  LET c == call[t].dst IN
  /\ c # None => /\ ~Made(t) => type[c] = "absent"
                 /\ \A u \in Threads \ {t} : call[u].dst # c
  /\ call[t].pc \in {"new", "register"} \/ call[t].op \in {"copyHost", "copyDevice"}
       => c # None

\* Where a call stands.
PlaceInv(t) ==
  /\ At(t, "idle") => call[t] = IdleCall
  /\ At(t, "leave") => call[t] = [IdleCall EXCEPT !.pc = "leave"]
  /\ call[t].back = "wait" => call[t].arg # None
  /\ call[t].back = "new" => call[t].dst # None
  /\ At(t, "limit") => call[t].back \in {"idle", "wait"}
  /\ At(t, "leave") \/ call[t].op = "copyDevice" => context[t] > 0

IInv == /\ TypeOK
        /\ \A b \in Buffers : LockInv(b) /\ BufferInv(b)
        /\ \A t \in Threads : ArgInv(t) /\ VictimInv(t) /\ DstInv(t) /\ PlaceInv(t)

(* The inductive invariant behind the eviction policy: one thread, and no   *)
(* frame that could release a buffer while the manager scans.               *)

Alone == Frames = {} /\ \E t \in Threads : Threads = {t}

Scanning == {"snapshot", "scan", "evict"}

\* What a scan has left behind: every managed buffer that is no longer in the
\* snapshot is spilled, unspillable or the victim, unless enough was spilled and
\* the rest of the snapshot was thrown away.
ScanInv(t) ==
  LET todo == call[t].todo IN
  call[t].pc \in {"scan", "evict"} =>
    /\ \A b \in DOMAIN todo : b \in managed /\ todo[b] = rank[b]
    /\ At(t, "evict") => call[t].victim \in managed
    /\ DOMAIN todo # {} \/ call[t].got = 0 \/ call[t].got < need[t] =>
         \A b \in managed \ DOMAIN todo :
           \/ Spilled(b) \/ ~Spillable(b)
           \/ At(t, "evict") /\ b = call[t].victim

\* What the scan for the limit has to spill still, it can find: the bytes over
\* the limit are at most the bytes it was asked for less those it has spilled.
LimitInv(t) ==
  call[t].pc \in Scanning /\ ~OutOfMemory(t) =>
    /\ DeviceLimit # None
    /\ TotalSize(Unspilled) + (IF At(t, "snapshot") THEN 0 ELSE call[t].got)
         <= need[t] + DeviceLimit

EvictionInv == /\ \A b \in managed : Size[b] > 0
               /\ need \in [Threads -> Int]
               /\ \A t \in Threads : ScanInv(t) /\ LimitInv(t)
=============================================================================
