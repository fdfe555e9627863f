------------------------- MODULE SpillManagerProofs -------------------------
(***************************************************************************)
(* Proofs about SpillManager, for any number of threads, frames and        *)
(* buffers, any sizes, any capacity and any bound on the calls.            *)
(***************************************************************************)
EXTENDS SpillProperties, FiniteSetTheorems, WellFoundedInduction, TLAPS

(* Typing. *)

LEMMA RanksBound == Cardinality(Buffers) \in Nat
  BY SizesAreNat, FS_CardinalityType

LEMMA EmptySnapshot == [c \in {} |-> 0] \in Snapshots
  <1>1. [c \in {} |-> 0] \in [{} -> Ranks] OBVIOUS
  <1> QED BY <1>1 DEF Snapshots

LEMMA FullSnapshot ==
  ASSUME TypeOK PROVE [b \in managed |-> rank[b]] \in Snapshots
  <1>1. [b \in managed |-> rank[b]] \in [managed -> Ranks] BY DEF TypeOK
  <1>2. managed \in SUBSET Buffers BY DEF TypeOK
  <1> QED BY <1>1, <1>2 DEF Snapshots

LEMMA SnapshotIsFunction ==
  ASSUME NEW s \in Snapshots
  PROVE DOMAIN s \subseteq Buffers /\ s \in [DOMAIN s -> Ranks]
  BY DEF Snapshots

LEMMA RestIsSnapshot ==
  ASSUME TypeOK, NEW t \in Threads, NEW b
  PROVE Without(t, b) \in Snapshots
  <1> DEFINE s == call[t].todo
             D == DOMAIN s \ {b}
  <1>1. s \in Snapshots BY DEF TypeOK, CallType
  <1>2. D \in SUBSET Buffers /\ \A c \in D : s[c] \in Ranks
    BY <1>1, SnapshotIsFunction
  <1>3. Without(t, b) \in [D -> Ranks] BY <1>2 DEF Without
  <1> QED BY <1>2, <1>3 DEF Snapshots

LEMMA IdleCallType == IdleCall \in CallType
  BY EmptySnapshot, Zenon DEF IdleCall, CallType, Labels, Ops, AllCalls

LEMMA TouchType ==
  ASSUME TypeOK, NEW b \in Buffers, Touch(b) PROVE rank' \in [Buffers -> Ranks]
  <1>1. Cardinality(Buffers) \in Ranks
    BY RanksBound DEF TypeOK, Ranks
  <1>2. \A c \in Buffers : rank[c] > rank[b] => rank[c] - 1 \in Ranks
    BY RanksBound DEF TypeOK, Ranks
  <1> QED BY <1>1, <1>2 DEF Touch, TypeOK

\* A frame of the right type, put in place for one thread.
LEMMA FrameFields ==
  ASSUME TypeOK, NEW t \in Threads, NEW r \in CallType, Frame(t, r)
  PROVE /\ call' \in [Threads -> CallType]
        /\ call'[t] = r
        /\ \A u \in Threads \ {t} : call'[u] = call[u]
  BY DEF Frame, TypeOK

\* The frame after Goto: everything but pc is as before.
LEMMA GotoFields ==
  ASSUME TypeOK, NEW t \in Threads, NEW label \in Labels, Goto(t, label)
  PROVE /\ call' \in [Threads -> CallType]
        /\ call'[t].pc = label /\ call'[t].op = call[t].op
        /\ call'[t].arg = call[t].arg /\ call'[t].dst = call[t].dst
        /\ call'[t].back = call[t].back /\ call'[t].victim = call[t].victim
        /\ \A u \in Threads \ {t} : call'[u] = call[u]
  <1> DEFINE r == [call[t] EXCEPT !.pc = label]
  <1>1. call[t] \in CallType BY DEF TypeOK
  <1>2. r \in CallType BY <1>1 DEF CallType
  <1>3. Frame(t, r) BY DEF Goto
  <1>4. /\ call' \in [Threads -> CallType]
        /\ call'[t] = r
        /\ \A u \in Threads \ {t} : call'[u] = call[u]
    BY <1>2, <1>3, FrameFields
  <1> QED BY <1>1, <1>4 DEF CallType

LEMMA ReturnFields ==
  ASSUME TypeOK, NEW t \in Threads, Return(t)
  PROVE /\ call' \in [Threads -> CallType]
        /\ call'[t].op = "none" /\ call'[t].arg = None /\ call'[t].dst = None
        /\ call'[t].back = "idle" /\ call'[t].victim = None
        /\ \/ call[t].op = "copyDevice" /\ call'[t].pc = "leave"
              /\ call'[t] = [IdleCall EXCEPT !.pc = "leave"]
           \/ call[t].op # "copyDevice" /\ call'[t].pc = "idle"
              /\ call'[t] = IdleCall
        /\ \A u \in Threads \ {t} : call'[u] = call[u]
  <1> DEFINE leave == [IdleCall EXCEPT !.pc = "leave"]
             r == IF call[t].op = "copyDevice" THEN leave ELSE IdleCall
  <1>1. leave \in CallType BY IdleCallType DEF CallType, Labels
  <1>2. r \in CallType BY <1>1, IdleCallType
  <1>3. Frame(t, r) BY DEF Return
  <1>4. /\ call' \in [Threads -> CallType]
        /\ call'[t] = r
        /\ \A u \in Threads \ {t} : call'[u] = call[u]
    BY <1>2, <1>3, FrameFields
  <1> QED BY <1>4 DEF IdleCall

(* What a step of one thread leaves alone for the others, and what it has   *)
(* to show for itself.                                                      *)

FramesKept(t) ==
  \A u \in Threads \ {t} : call'[u] = call[u] /\ context'[u] = context[u]

DstsKept(t) ==
  \A u \in Threads \ {t} :
    call[u].dst # None =>
      /\ call'[t].dst # call[u].dst
      /\ type[call[u].dst] = "absent" => type'[call[u].dst] = "absent"

\* The locks of the others, and what is under them.
LocksKept(t) ==
  \A b \in Buffers, u \in Threads \ {t} :
    /\ lockedBy'[b] = u => lockedBy[b] = u
    /\ lockedBy[b] = u => /\ lockedBy'[b] = u
                          /\ type'[b] = type[b]
                          /\ staged'[b] = staged[b]
                          /\ ~exposed[b] => ~exposed'[b]
                          /\ spillLocks'[b] \subseteq spillLocks[b]
                          /\ device[b] # None => device'[b] # None

\* The arguments of the others.
ArgsKept(t) ==
  \A b \in Buffers, u \in Threads \ {t} :
    call[u].arg = b => /\ type[b] # "absent" => type'[b] # "absent"
                       /\ exposed[b] => exposed'[b]
                       /\ u \in spillLocks[b] => u \in spillLocks'[b]

KeepsOthers(t) == FramesKept(t) /\ DstsKept(t) /\ LocksKept(t) /\ ArgsKept(t)

OwnLocks(t) ==
  \A b \in Buffers :
    /\ depth[b] = IF lockedBy[b] = None THEN 0 ELSE 1
    /\ lockedBy[b] = t => \/ UnderLock(t) /\ call[t].arg = b
                          \/ At(t, "evict") /\ call[t].victim = b

OwnInv(t) == ArgInv(t) /\ VictimInv(t) /\ DstInv(t) /\ PlaceInv(t)

LEMMA SameFrame ==
  ASSUME NEW u, call'[u] = call[u]
  PROVE (UnderLock(u)' <=> UnderLock(u)) /\ (Unspilling(u)' <=> Unspilling(u))
  <1>1. \A label : At(u, label)' <=> At(u, label) BY DEF At
  <1>2. Unspilling(u)' <=> Unspilling(u) BY <1>1 DEF Unspilling
  <1> QED BY <1>1, <1>2 DEF UnderLock

LEMMA Assemble ==
  ASSUME IInv, NEW t \in Threads, KeepsOthers(t), TypeOK',
         OwnLocks(t)', OwnInv(t)', \A b \in Buffers : BufferInv(b)'
  PROVE IInv'
  <1>1. TypeOK BY DEF IInv
  <1>k. FramesKept(t) /\ DstsKept(t) /\ LocksKept(t) /\ ArgsKept(t) BY DEF KeepsOthers
  <1>f. ASSUME NEW u \in Threads \ {t}
        PROVE call'[u] = call[u] /\ context'[u] = context[u]
    BY <1>k DEF FramesKept
  <1>2. ASSUME NEW u \in Threads \ {t} PROVE ArgInv(u)'
    <2> DEFINE b == call[u].arg
    <2>1. call'[u] = call[u] BY <1>f
    <2>2. b \in Buffers \cup {None} BY <1>1 DEF TypeOK, CallType
    <2>3. ArgInv(u) BY DEF IInv
    <2>4. CASE b = None
      <3>1. call[u].pc \notin {"wait", "ret"} /\ ~UnderLock(u) BY <2>3, <2>4 DEF ArgInv
      <3> QED BY <3>1, <2>1, <2>4 DEF ArgInv, UnderLock, Unspilling, At
    <2>5. CASE b \in Buffers
      <3>1. (UnderLock(u)' <=> UnderLock(u)) /\ (Unspilling(u)' <=> Unspilling(u))
        BY <2>1, SameFrame
      <3>2. /\ type[b] # "absent" => type'[b] # "absent"
            /\ exposed[b] => exposed'[b]
            /\ u \in spillLocks[b] => u \in spillLocks'[b]
        BY <1>k, <2>5 DEF ArgsKept
      <3>3. UnderLock(u) => /\ lockedBy'[b] = u /\ type'[b] = type[b]
                            /\ staged'[b] = staged[b]
                            /\ Spillable(b) => Spillable(b)'
                            /\ device[b] # None => device'[b] # None
        <4>1. UnderLock(u) => lockedBy[b] = u BY <2>3 DEF ArgInv
        <4>2. LocksKept(t) BY <1>k
        <4>3. UnderLock(u) => /\ lockedBy'[b] = u /\ type'[b] = type[b]
                              /\ staged'[b] = staged[b]
                              /\ ~exposed[b] => ~exposed'[b]
                              /\ spillLocks'[b] \subseteq spillLocks[b]
                              /\ device[b] # None => device'[b] # None
          BY <4>1, <4>2, <2>5 DEF LocksKept
        <4>4. (spillLocks'[b] \subseteq spillLocks[b] /\ spillLocks[b] = {})
                => spillLocks'[b] = {}
          OBVIOUS
        <4>5. UnderLock(u) => (Spillable(b) => Spillable(b)')
          BY <2>1, <4>3, <4>4 DEF Spillable
        <4> QED BY <4>3, <4>5
      <3>4. Unspilling(u) \/ At(u, "settle") \/ At(u, "unspilled") \/ At(u, "dtoh")
              => UnderLock(u)
        BY DEF UnderLock, At
      <3> QED BY <2>1, <2>3, <2>5, <3>1, <3>2, <3>3, <3>4 DEF ArgInv, At
    <2> QED BY <2>2, <2>4, <2>5
  <1>3. ASSUME NEW u \in Threads \ {t} PROVE VictimInv(u)'
    <2>1. call'[u] = call[u] BY <1>f
    <2>2. call[u].victim \in Buffers \cup {None} BY <1>1 DEF TypeOK, CallType
    <2>3. VictimInv(u) BY DEF IInv
    <2> QED BY <1>k, <2>1, <2>2, <2>3 DEF LocksKept, VictimInv, At, Spillable
  <1>4. ASSUME NEW u \in Threads \ {t} PROVE DstInv(u)'
    <2>1. call'[u] = call[u] BY <1>f
    <2>3. DstInv(u) BY DEF IInv
    <2>4. Made(u)' <=> Made(u) BY <2>1 DEF Made, At
    <2>5. ASSUME call[u].dst # None, NEW w \in Threads \ {u}
          PROVE call'[w].dst # call[u].dst
      BY <1>k, <1>f, <2>3, <2>5 DEF DstsKept, DstInv
    <2>6. call[u].dst # None /\ ~Made(u) => type'[call[u].dst] = "absent"
      BY <1>k, <2>3 DEF DstsKept, DstInv
    <2> QED BY <2>1, <2>3, <2>4, <2>5, <2>6 DEF DstInv
  <1>5. ASSUME NEW u \in Threads \ {t} PROVE PlaceInv(u)'
    <2>1. PlaceInv(u) BY DEF IInv
    <2> QED BY <1>f, <2>1 DEF PlaceInv, At, IdleCall
  <1>6. ASSUME NEW b \in Buffers PROVE LockInv(b)'
    <2>1. depth'[b] = IF lockedBy'[b] = None THEN 0 ELSE 1 BY DEF OwnLocks
    <2>2. ASSUME NEW u \in Threads, lockedBy'[b] = u
          PROVE \/ UnderLock(u)' /\ call'[u].arg = b
                \/ At(u, "evict")' /\ call'[u].victim = b
      <3>1. CASE u = t BY <2>2, <3>1 DEF OwnLocks
      <3>2. CASE u # t
        <4>1. lockedBy[b] = u /\ call'[u] = call[u]
          BY <1>k, <1>f, <2>2, <3>2 DEF LocksKept
        <4>2. \/ UnderLock(u) /\ call[u].arg = b
              \/ At(u, "evict") /\ call[u].victim = b
          <5>1. LockInv(b) BY DEF IInv
          <5> QED BY <5>1, <4>1 DEF LockInv
        <4>3. UnderLock(u)' <=> UnderLock(u) BY <4>1, SameFrame
        <4> QED BY <4>1, <4>2, <4>3 DEF At
      <3> QED BY <3>1, <3>2
    <2> QED BY <2>1, <2>2 DEF LockInv
  <1> QED BY <1>2, <1>3, <1>4, <1>5, <1>6 DEF IInv, OwnInv

\* Returning leaves nothing to show.
LEMMA ReturnOwn ==
  ASSUME IInv, NEW t \in Threads, Return(t), context'[t] = context[t]
  PROVE OwnInv(t)' /\ ~UnderLock(t)' /\ ~At(t, "evict")'
  <1>1. TypeOK BY DEF IInv
  <1>2. /\ call'[t].arg = None /\ call'[t].dst = None /\ call'[t].op = "none"
        /\ call'[t].back = "idle" /\ call'[t].victim = None
        /\ \/ call[t].op = "copyDevice" /\ call'[t].pc = "leave"
              /\ call'[t] = [IdleCall EXCEPT !.pc = "leave"]
           \/ call[t].op # "copyDevice" /\ call'[t].pc = "idle"
              /\ call'[t] = IdleCall
    BY <1>1, ReturnFields
  <1>3. ~UnderLock(t)' /\ ~Unspilling(t)' /\ ~At(t, "evict")'
    BY <1>2 DEF UnderLock, Unspilling, At
  <1>4. ArgInv(t)' BY <1>2, <1>3 DEF ArgInv, At
  <1>5. VictimInv(t)' BY <1>3 DEF VictimInv
  <1>6. DstInv(t)' BY <1>2 DEF DstInv, At
  <1>7. PlaceInv(t) BY DEF IInv
  <1>8. PlaceInv(t)' BY <1>2, <1>7 DEF PlaceInv, At
  <1> QED BY <1>3, <1>4, <1>5, <1>6, <1>8 DEF OwnInv

\* Outside its locked regions a thread owns no lock.
LEMMA OwnsNothing ==
  ASSUME IInv, NEW t \in Threads, ~UnderLock(t), ~At(t, "evict"), NEW b \in Buffers
  PROVE lockedBy[b] # t
  <1>1. LockInv(b) BY DEF IInv
  <1> QED BY <1>1 DEF LockInv

\* A step that changes the thread's frame and no buffer.
Quiet ==
  /\ UNCHANGED <<type, device, memoryview, staged, exposed, spillLocks, rank,
                 lockedBy, depth, context, held>>
  /\ managed' \subseteq Buffers /\ callsLeft' \in Nat

\* The frame step itself: typed, the others' untouched, no one else's new buffer.
FrameStep(t) ==
  /\ call' \in [Threads -> CallType]
  /\ \A u \in Threads \ {t} : call'[u] = call[u]
  /\ \A u \in Threads \ {t} : call[u].dst # None => call'[t].dst # call[u].dst

\* The locks of a thread are those its frame accounts for.
Covers(t) ==
  \A b \in Buffers : lockedBy[b] = t => \/ UnderLock(t) /\ call[t].arg = b
                                        \/ At(t, "evict") /\ call[t].victim = b

LEMMA CallOnly ==
  ASSUME IInv, NEW t \in Threads, Quiet, FrameStep(t), Covers(t)', OwnInv(t)'
  PROVE IInv'
  <1>1. TypeOK BY DEF IInv
  <1>2. TypeOK'
    BY <1>1 DEF TypeOK, Quiet, FrameStep
  <1>3. KeepsOthers(t)
    BY DEF KeepsOthers, FramesKept, DstsKept, LocksKept, ArgsKept, Quiet, FrameStep
  <1>4. OwnLocks(t)'
    <2> SUFFICES ASSUME NEW b \in Buffers
                 PROVE /\ depth'[b] = IF lockedBy'[b] = None THEN 0 ELSE 1
                       /\ lockedBy'[b] = t => \/ UnderLock(t)' /\ call'[t].arg = b
                                              \/ At(t, "evict")' /\ call'[t].victim = b
      BY DEF OwnLocks
    <2>1. LockInv(b) BY DEF IInv
    <2>2. depth'[b] = IF lockedBy'[b] = None THEN 0 ELSE 1
      BY <2>1 DEF LockInv, Quiet
    <2> QED BY <2>2 DEF Covers
  <1>5. ASSUME NEW b \in Buffers PROVE BufferInv(b)'
    <2>1. BufferInv(b) BY DEF IInv
    <2> QED BY <2>1 DEF BufferInv, Spillable, Quiet
  <1> QED BY <1>2, <1>3, <1>4, <1>5, Assemble

(* Steps that only move the thread's frame. *)

\* Goto, on the way through a locked region or outside every one.
LEMMA GotoFrameStep ==
  ASSUME IInv, NEW t \in Threads, NEW label \in Labels, Goto(t, label)
  PROVE FrameStep(t)
  <1>1. TypeOK BY DEF IInv
  <1>2. /\ call' \in [Threads -> CallType]
        /\ call'[t].dst = call[t].dst
        /\ \A u \in Threads \ {t} : call'[u] = call[u]
    BY <1>1, GotoFields
  <1>3. \A u \in Threads \ {t} : call[u].dst # None => call[t].dst # call[u].dst
    BY DEF IInv, DstInv
  <1> QED BY <1>2, <1>3 DEF FrameStep

\* What a Goto leaves as it was.
LEMMA GotoOwn ==
  ASSUME IInv, NEW t \in Threads, NEW label \in Labels \ {"idle", "leave", "limit", "evict"},
         Goto(t, label),
         context'[t] = context[t],
         Made(t) => Made(t)',
         label \in {"new", "register"} => call[t].dst # None,
         call[t].dst # None /\ ~Made(t)' => type'[call[t].dst] = type[call[t].dst]
  PROVE VictimInv(t)' /\ DstInv(t)' /\ PlaceInv(t)'
  <1>1. TypeOK /\ DstInv(t) /\ PlaceInv(t) BY DEF IInv
  <1>2. /\ call'[t].pc = label /\ call'[t].op = call[t].op
        /\ call'[t].arg = call[t].arg /\ call'[t].dst = call[t].dst
        /\ call'[t].back = call[t].back /\ call'[t].victim = call[t].victim
    BY <1>1, GotoFields
  <1>3. FrameStep(t) BY GotoFrameStep
  <1>4. VictimInv(t)' BY <1>2 DEF VictimInv, At
  <1>5. PlaceInv(t)' BY <1>1, <1>2 DEF PlaceInv, At
  <1>6. DstInv(t)'
    BY <1>1, <1>2, <1>3 DEF DstInv, At, FrameStep
  <1> QED BY <1>4, <1>5, <1>6

\* A Goto on a path that has no new buffer yet.
LEMMA GotoPlain ==
  ASSUME IInv, NEW t \in Threads,
         NEW label \in Labels \ {"idle", "leave", "limit", "evict", "new", "register"},
         Goto(t, label),
         ~Made(t),
         context'[t] = context[t],
         call[t].dst # None => type'[call[t].dst] = type[call[t].dst]
  PROVE VictimInv(t)' /\ DstInv(t)' /\ PlaceInv(t)'
  BY GotoOwn

LEMMA OnDeviceInv ==
  ASSUME IInv, NEW t \in Threads, OnDevice(t) PROVE IInv'
  <1>1. TypeOK /\ ArgInv(t) BY DEF IInv
  <1>2. /\ call'[t].pc = "unspilled"
        /\ call'[t].arg = call[t].arg /\ call'[t].back = call[t].back
    BY <1>1, GotoFields DEF OnDevice, Labels
  <1>3. Quiet
    BY <1>1 DEF OnDevice, Quiet, TypeOK, memVars, pinVars, lockVars, userVars
  <1>4. call[t].pc = "locked" /\ type[call[t].arg] = "gpu" BY DEF OnDevice, At, Spilled
  <1>5. Covers(t)'
    BY <1>2, <1>3, <1>4 DEF IInv, LockInv, Covers, UnderLock, At, Quiet
  <1>6. ArgInv(t)'
    BY <1>1, <1>2, <1>3, <1>4 DEF ArgInv, UnderLock, Unspilling, At, Quiet
  <1>7. VictimInv(t)' /\ DstInv(t)' /\ PlaceInv(t)'
    <2>1. ~Made(t) BY <1>4 DEF Made, At
    <2> QED BY <1>3, <2>1, GotoPlain DEF OnDevice, Labels, Quiet
  <1>8. FrameStep(t) BY GotoFrameStep DEF OnDevice, Labels
  <1> QED BY <1>3, <1>5, <1>6, <1>7, <1>8, CallOnly DEF OwnInv

LEMMA OnHostInv ==
  ASSUME IInv, NEW t \in Threads, OnHost(t) PROVE IInv'
  <1>1. TypeOK /\ ArgInv(t) BY DEF IInv
  <1>2. /\ call'[t].pc = "host"
        /\ call'[t].arg = call[t].arg /\ call'[t].back = call[t].back
    BY <1>1, GotoFields DEF OnHost, Labels
  <1>3. Quiet
    BY <1>1 DEF OnHost, Quiet, TypeOK, memVars, pinVars, lockVars, userVars
  <1>4. call[t].pc = "locked" BY DEF OnHost, At
  <1>5. Covers(t)'
    BY <1>2, <1>3, <1>4 DEF IInv, LockInv, Covers, UnderLock, At, Quiet
  <1>6. ArgInv(t)'
    BY <1>1, <1>2, <1>3, <1>4 DEF ArgInv, UnderLock, Unspilling, At, Quiet
  <1>7. VictimInv(t)' /\ DstInv(t)' /\ PlaceInv(t)'
    <2>1. ~Made(t) BY <1>4 DEF Made, At
    <2> QED BY <1>3, <2>1, GotoPlain DEF OnHost, Labels, Quiet
  <1>8. FrameStep(t) BY GotoFrameStep DEF OnHost, Labels
  <1> QED BY <1>3, <1>5, <1>6, <1>7, <1>8, CallOnly DEF OwnInv

\* A return from outside the locked regions, changing nothing else.
LEMMA ReturnQuiet ==
  ASSUME IInv, NEW t \in Threads, Return(t), Quiet, ~UnderLock(t), ~At(t, "evict")
  PROVE IInv'
  <1>1. TypeOK BY DEF IInv
  <1>2. OwnInv(t)' /\ ~UnderLock(t)' /\ ~At(t, "evict")' BY ReturnOwn DEF Quiet
  <1>3. FrameStep(t) BY <1>1, ReturnFields DEF FrameStep
  <1>4. Covers(t)' BY OwnsNothing DEF Covers, Quiet
  <1> QED BY <1>2, <1>3, <1>4, CallOnly

LEMMA ResumeInv ==
  ASSUME IInv, NEW t \in Threads, Resume(t) PROVE IInv'
  <1>1. TypeOK /\ ArgInv(t) /\ PlaceInv(t) BY DEF IInv
  <1>2. Quiet
    BY <1>1 DEF Resume, Quiet, TypeOK, memVars, pinVars, lockVars, userVars
  <1>3. call[t].pc = "scan" /\ call[t].back \in {"idle", "wait", "alloc", "new"}
    BY <1>1 DEF Resume, ScanDone, At, TypeOK, CallType
  <1>4. CASE call[t].back = "idle"
    <2>1. Return(t) BY <1>4 DEF Resume, Proceed
    <2>2. ~UnderLock(t) /\ ~At(t, "evict") BY <1>3, <1>4 DEF UnderLock, Unspilling, At
    <2> QED BY <1>2, <2>1, <2>2, ReturnQuiet
  <1>5. CASE call[t].back # "idle"
    <2> DEFINE label == call[t].back
    <2>1. Goto(t, label) /\ label \in Labels \ {"idle", "leave", "limit", "evict"}
      BY <1>3, <1>5 DEF Resume, Proceed, Labels
    <2>2. /\ call'[t].pc = label /\ call'[t].op = call[t].op
          /\ call'[t].arg = call[t].arg /\ call'[t].back = call[t].back
      BY <1>1, <2>1, GotoFields
    <2>3. UnderLock(t)' <=> UnderLock(t)
      BY <1>3, <1>5, <2>2 DEF UnderLock, Unspilling, At
    <2>4. Covers(t)'
      BY <1>2, <1>3, <2>2, <2>3 DEF IInv, LockInv, Covers, At, Quiet
    <2>5. ArgInv(t)'
      BY <1>1, <1>2, <1>3, <1>5, <2>2, <2>3 DEF ArgInv, PlaceInv, Unspilling, At, Quiet, Spillable
    <2>6. VictimInv(t)' /\ DstInv(t)' /\ PlaceInv(t)'
      <3>1. ~Made(t) BY <1>3, <1>5 DEF Made, At
      <3>2. label \in {"new", "register"} => call[t].dst # None
        BY <1>1, <1>3 DEF PlaceInv
      <3> QED BY <1>2, <2>1, <3>1, <3>2, GotoOwn DEF Quiet
    <2>7. FrameStep(t) BY <2>1, GotoFrameStep
    <2> QED BY <1>2, <2>4, <2>5, <2>6, <2>7, CallOnly DEF OwnInv
  <1> QED BY <1>4, <1>5

\* On to the snapshot or the scan, with what the call is for unchanged.
LEMMA Scans ==
  ASSUME IInv, NEW t \in Threads, Quiet,
         call' \in [Threads -> CallType],
         \A u \in Threads \ {t} : call'[u] = call[u],
         call[t].pc \in {"limit", "snapshot", "scan", "alloc", "new"},
         call'[t].pc \in {"snapshot", "scan"},
         call'[t].op = call[t].op, call'[t].arg = call[t].arg,
         call'[t].dst = call[t].dst,
         call'[t].back = IF call[t].pc \in {"alloc", "new"} THEN call[t].pc
                         ELSE call[t].back
  PROVE IInv'
  <1>1. TypeOK /\ ArgInv(t) /\ DstInv(t) /\ PlaceInv(t) BY DEF IInv
  <1>2. Unspilling(t)' <=> Unspilling(t)
    BY <1>1 DEF Unspilling, At, PlaceInv
  <1>3. (UnderLock(t) <=> Unspilling(t)) /\ (UnderLock(t)' <=> Unspilling(t)')
    BY DEF UnderLock, Unspilling, At
  <1>4. Covers(t)'
    BY <1>2, <1>3 DEF IInv, LockInv, Covers, At, Quiet
  <1>5. ArgInv(t)'
    BY <1>1, <1>2, <1>3 DEF ArgInv, At, Quiet, Spillable
  <1>6. VictimInv(t)' BY DEF VictimInv, At
  <1>7. FrameStep(t)
    <2>1. \A u \in Threads \ {t} : call[u].dst # None => call[t].dst # call[u].dst
      BY DEF IInv, DstInv
    <2> QED BY <2>1 DEF FrameStep
  <1>8. DstInv(t)'
    <2>1. Made(t) => Made(t)' BY DEF Made, At
    <2>2. call[t].pc = "new" => call[t].dst # None BY <1>1 DEF DstInv
    <2> QED BY <1>1, <1>7, <2>1, <2>2 DEF DstInv, Quiet, FrameStep
  <1>9. PlaceInv(t)'
    <2>1. call[t].pc = "new" => call[t].dst # None BY <1>1 DEF DstInv
    <2> QED BY <1>1, <2>1 DEF PlaceInv, At, Quiet
  <1> QED BY <1>4, <1>5, <1>6, <1>7, <1>8, <1>9, CallOnly DEF OwnInv

LEMMA MeasureLimitInv ==
  ASSUME IInv, NEW t \in Threads, MeasureLimit(t) PROVE IInv'
  <1>1. TypeOK /\ ArgInv(t) /\ PlaceInv(t) BY DEF IInv
  <1>2. Quiet
    BY <1>1 DEF MeasureLimit, Quiet, TypeOK, memVars, pinVars, lockVars, userVars
  <1>3. call[t].pc = "limit" /\ call[t].back \in {"idle", "wait"}
    BY <1>1 DEF MeasureLimit, At, PlaceInv
  <1>4. ~UnderLock(t) /\ ~At(t, "evict") BY <1>3 DEF UnderLock, Unspilling, At
  <1>5. CASE DeviceLimit = None /\ call[t].back = "idle"
    <2>1. Return(t) BY <1>5 DEF MeasureLimit, Proceed
    <2> QED BY <1>2, <1>4, <2>1, ReturnQuiet
  <1>6. CASE DeviceLimit = None /\ call[t].back = "wait"
    <2>1. Goto(t, "wait") BY <1>6 DEF MeasureLimit, Proceed
    <2>2. call'[t].pc = "wait" /\ call'[t].arg = call[t].arg /\ call'[t].back = call[t].back
      BY <1>1, <2>1, GotoFields DEF Labels
    <2>3. ~UnderLock(t)' BY <2>2 DEF UnderLock, Unspilling, At
    <2>4. Covers(t)' BY <1>2, <1>4, OwnsNothing DEF Covers, Quiet
    <2>5. ArgInv(t)'
      BY <1>1, <1>2, <1>6, <2>2, <2>3 DEF ArgInv, PlaceInv, UnderLock, At, Quiet
    <2>6. VictimInv(t)' /\ DstInv(t)' /\ PlaceInv(t)'
      <3>1. ~Made(t) BY <1>3, <1>6 DEF Made, At
      <3> QED BY <1>2, <2>1, <3>1, GotoPlain DEF Labels, Quiet
    <2>7. FrameStep(t) BY <2>1, GotoFrameStep DEF Labels
    <2> QED BY <1>2, <2>4, <2>5, <2>6, <2>7, CallOnly DEF OwnInv
  <1>7. CASE DeviceLimit # None
    <2>1. Goto(t, "snapshot") BY <1>7 DEF MeasureLimit
    <2>2. /\ call' \in [Threads -> CallType]
          /\ call'[t].pc = "snapshot" /\ call'[t].op = call[t].op
          /\ call'[t].arg = call[t].arg /\ call'[t].dst = call[t].dst
          /\ call'[t].back = call[t].back
          /\ \A u \in Threads \ {t} : call'[u] = call[u]
      BY <1>1, <2>1, GotoFields DEF Labels
    <2> QED BY <1>2, <1>3, <2>2, Scans
  <1> QED BY <1>3, <1>5, <1>6, <1>7

LEMMA SnapshotInv ==
  ASSUME IInv, NEW t \in Threads, Snapshot(t) PROVE IInv'
  <1>1. TypeOK BY DEF IInv
  <1>2. Quiet
    BY <1>1 DEF Snapshot, Quiet, TypeOK, memVars, pinVars, lockVars, userVars
  <1> DEFINE r == [call[t] EXCEPT !.pc = "scan", !.got = 0,
                                  !.todo = [b \in managed |-> rank[b]]]
  <1>3. call[t] \in CallType BY <1>1 DEF TypeOK
  <1>4. r \in CallType BY <1>1, <1>3, FullSnapshot DEF CallType, Labels
  <1>5. Frame(t, r) BY DEF Snapshot
  <1>6. /\ call' \in [Threads -> CallType] /\ call'[t] = r
        /\ \A u \in Threads \ {t} : call'[u] = call[u]
    BY <1>1, <1>4, <1>5, FrameFields
  <1>7. call[t].pc = "snapshot" BY DEF Snapshot, At
  <1> QED BY <1>2, <1>3, <1>6, <1>7, Scans DEF CallType

LEMMA ScanSkipInv ==
  ASSUME IInv, NEW t \in Threads, NEW b \in Buffers, ScanSkip(t, b) PROVE IInv'
  <1>1. TypeOK BY DEF IInv
  <1>2. Quiet
    BY <1>1 DEF ScanSkip, Quiet, TypeOK, memVars, pinVars, lockVars, userVars
  <1> DEFINE r == [call[t] EXCEPT !.todo = Without(t, b)]
  <1>3. call[t] \in CallType BY <1>1 DEF TypeOK
  <1>4. r \in CallType BY <1>1, <1>3, RestIsSnapshot DEF CallType
  <1>5. Frame(t, r) BY DEF ScanSkip
  <1>6. /\ call' \in [Threads -> CallType] /\ call'[t] = r
        /\ \A u \in Threads \ {t} : call'[u] = call[u]
    BY <1>1, <1>4, <1>5, FrameFields
  <1>7. call[t].pc = "scan" BY DEF ScanSkip, At
  <1> QED BY <1>2, <1>3, <1>6, <1>7, Scans DEF CallType

LEMMA ScanAgainInv ==
  ASSUME IInv, NEW t \in Threads, ScanAgain(t) PROVE IInv'
  <1>1. TypeOK BY DEF IInv
  <1>2. Quiet
    BY <1>1 DEF ScanAgain, Quiet, TypeOK, memVars, pinVars, lockVars, userVars
  <1> DEFINE r == [call[t] EXCEPT !.pc = "snapshot", !.retryOnce = FALSE]
  <1>3. call[t] \in CallType BY <1>1 DEF TypeOK
  <1>4. r \in CallType BY <1>3 DEF CallType, Labels
  <1>5. Frame(t, r) BY DEF ScanAgain
  <1>6. /\ call' \in [Threads -> CallType] /\ call'[t] = r
        /\ \A u \in Threads \ {t} : call'[u] = call[u]
    BY <1>1, <1>4, <1>5, FrameFields
  <1>7. call[t].pc = "scan" BY DEF ScanAgain, ScanDone, At
  <1> QED BY <1>2, <1>3, <1>6, <1>7, Scans DEF CallType

LEMMA AllocFailsInv ==
  ASSUME IInv, NEW t \in Threads, AllocFails(t) PROVE IInv'
  <1>1. TypeOK BY DEF IInv
  <1>2. Quiet
    BY <1>1 DEF AllocFails, Quiet, TypeOK, memVars, pinVars, lockVars, userVars
  <1> DEFINE r == [call[t] EXCEPT !.pc = "snapshot", !.back = call[t].pc,
                                  !.retryOnce = TRUE]
  <1>3. call[t] \in CallType /\ call[t].pc \in {"alloc", "new"}
    BY <1>1 DEF TypeOK, AllocFails
  <1>4. r \in CallType BY <1>3 DEF CallType, Labels
  <1>5. Frame(t, r) BY DEF AllocFails
  <1>6. /\ call' \in [Threads -> CallType] /\ call'[t] = r
        /\ \A u \in Threads \ {t} : call'[u] = call[u]
    BY <1>1, <1>4, <1>5, FrameFields
  <1> QED BY <1>2, <1>3, <1>6, Scans DEF CallType

\* A call that starts owns no lock and has found out nothing yet.
LEMMA Starts ==
  ASSUME IInv, NEW t \in Threads, Quiet, At(t, "idle"),
         NEW r \in CallType, Frame(t, r),
         r.pc \in {"wait", "limit", "new"},
         r.back \in {"idle", "wait"},
         r.op \notin {"copyHost", "copyDevice"},
         r.arg # None => type[r.arg] # "absent",
         r.pc = "wait" \/ r.back = "wait" => r.arg # None,
         r.pc = "new" <=> r.dst # None,
         r.dst # None => Free(r.dst)
  PROVE IInv'
  <1>1. TypeOK BY DEF IInv
  <1>2. /\ call' \in [Threads -> CallType] /\ call'[t] = r
        /\ \A u \in Threads \ {t} : call'[u] = call[u]
    BY <1>1, FrameFields
  <1>3. ~UnderLock(t) /\ ~At(t, "evict") BY DEF UnderLock, Unspilling, At
    , IInv, PlaceInv, IdleCall
  <1>4. ~UnderLock(t)' /\ ~Unspilling(t)' BY <1>2 DEF UnderLock, Unspilling, At
  <1>5. Covers(t)' BY <1>3, OwnsNothing DEF Covers, Quiet
  <1>6. ArgInv(t)' BY <1>2, <1>4 DEF ArgInv, At, Quiet
  <1>7. VictimInv(t)' BY <1>2 DEF VictimInv, At
  <1>8. FrameStep(t) BY <1>2 DEF FrameStep, Free
  <1>9. DstInv(t)' BY <1>2, <1>8 DEF DstInv, At, Quiet, Free
  <1>10. PlaceInv(t)' BY <1>2 DEF PlaceInv, At
  <1> QED BY <1>5, <1>6, <1>7, <1>8, <1>9, <1>10, CallOnly DEF OwnInv

LEMMA BuffersAreNotNone == None \notin Buffers /\ None \notin Threads
  BY NamesDiffer

LEMMA StartQuiet ==
  ASSUME IInv, NEW t \in Threads, NEW name, NEW r, Start(t, name, r),
         UNCHANGED <<memVars, pinVars, rank, lockVars, managed, need, context, held>>
  PROVE Quiet /\ At(t, "idle") /\ Frame(t, r) /\ name \in Calls
  <1>1. callsLeft \in Nat /\ callsLeft > 0 /\ callsLeft' = callsLeft - 1
    BY DEF IInv, TypeOK, Start
  <1>2. callsLeft' \in Nat BY <1>1
  <1> QED BY <1>2 DEF IInv, TypeOK, Start, Quiet, memVars, pinVars, lockVars

LEMMA StartAccessInv ==
  ASSUME IInv, NEW t \in Threads, NEW b \in Buffers, StartAccess(t, b) PROVE IInv'
  <1> DEFINE r1 == [IdleCall EXCEPT !.pc = "limit", !.op = "access", !.arg = b,
                                    !.back = "wait"]
             r2 == [IdleCall EXCEPT !.pc = "wait", !.op = "pin", !.arg = b]
             r == IF context[t] = 0 THEN r1 ELSE r2
  <1>1. Start(t, "access", r) BY DEF StartAccess
  <1>2. Quiet /\ At(t, "idle") /\ Frame(t, r)
    BY <1>1, StartQuiet DEF StartAccess
  <1>3. r1 \in CallType /\ r2 \in CallType
    <2>1. r1 \in CallType BY IdleCallType DEF CallType, Labels, Ops, AllCalls
    <2>2. r2 \in CallType BY IdleCallType DEF CallType, Labels, Ops, AllCalls
    <2> QED BY <2>1, <2>2
  <1>4. type[b] # "absent" /\ b # None
    BY BuffersAreNotNone DEF StartAccess, Existing
  <1>5. CASE context[t] = 0
    <2>1. Frame(t, r1) BY <1>2, <1>5
    <2> QED BY <1>2, <1>3, <1>4, <2>1, Starts DEF IdleCall
  <1>6. CASE context[t] # 0
    <2>1. Frame(t, r2) BY <1>2, <1>6
    <2> QED BY <1>2, <1>3, <1>4, <2>1, Starts DEF IdleCall
  <1> QED BY <1>5, <1>6

LEMMA StartLockedInv ==
  ASSUME IInv, NEW t \in Threads, NEW b \in Buffers, NEW name, StartLocked(t, b, name)
  PROVE IInv'
  <1> DEFINE r == [IdleCall EXCEPT !.pc = "wait", !.op = name, !.arg = b]
  <1>1. Start(t, name, r) BY DEF StartLocked
  <1>2. Quiet /\ At(t, "idle") /\ Frame(t, r)
    BY <1>1, StartQuiet DEF StartLocked
  <1>3. r \in CallType
    BY IdleCallType DEF CallType, Labels, Ops, AllCalls, StartLocked
  <1>4. type[b] # "absent" /\ b # None
    BY BuffersAreNotNone DEF StartLocked, Existing
  <1> QED BY <1>2, <1>3, <1>4, Starts DEF IdleCall, StartLocked

LEMMA StartToLimitInv ==
  ASSUME IInv, NEW t \in Threads, StartToLimit(t) PROVE IInv'
  <1> DEFINE r == [IdleCall EXCEPT !.pc = "limit", !.op = "toLimit"]
  <1>1. Start(t, "toLimit", r) BY DEF StartToLimit
  <1>2. Quiet /\ At(t, "idle") /\ Frame(t, r)
    BY <1>1, StartQuiet DEF StartToLimit
  <1>3. r \in CallType
    BY IdleCallType DEF CallType, Labels, Ops, AllCalls
  <1> QED BY <1>2, <1>3, Starts DEF IdleCall

LEMMA StartCreateInv ==
  ASSUME IInv, NEW t \in Threads, NEW b \in Buffers, NEW name, StartCreate(t, b, name)
  PROVE IInv'
  <1> DEFINE r == [IdleCall EXCEPT !.pc = "new", !.op = name, !.dst = b]
  <1>1. Start(t, name, r) BY DEF StartCreate
  <1>2. Quiet /\ At(t, "idle") /\ Frame(t, r)
    BY <1>1, StartQuiet DEF StartCreate
  <1>3. r \in CallType
    BY IdleCallType DEF CallType, Labels, Ops, AllCalls, StartCreate
  <1>4. Free(b) /\ b # None BY BuffersAreNotNone DEF StartCreate
  <1> QED BY <1>2, <1>3, <1>4, Starts DEF IdleCall, StartCreate

LEMMA RegisterInv ==
  ASSUME IInv, NEW t \in Threads, Register(t) PROVE IInv'
  <1>1. TypeOK /\ ArgInv(t) /\ DstInv(t) /\ PlaceInv(t) BY DEF IInv
  <1> DEFINE r == [call[t] EXCEPT !.pc = "limit", !.back = "idle"]
  <1>2. call[t] \in CallType BY <1>1 DEF TypeOK
  <1>3. r \in CallType BY <1>2 DEF CallType, Labels
  <1>4. Frame(t, r) BY DEF Register
  <1>5. /\ call' \in [Threads -> CallType] /\ call'[t] = r
        /\ \A u \in Threads \ {t} : call'[u] = call[u]
    BY <1>1, <1>3, <1>4, FrameFields
  <1>6. call[t].pc = "register" BY DEF Register, At
  <1>7. /\ call'[t].pc = "limit" /\ call'[t].op = call[t].op
        /\ call'[t].arg = call[t].arg /\ call'[t].dst = call[t].dst
        /\ call'[t].back = "idle"
    BY <1>2, <1>5 DEF CallType
  <1>8. Quiet
    <2>1. call[t].dst \in Buffers BY <1>1, <1>2, <1>6 DEF DstInv, CallType
    <2> QED BY <1>1, <2>1 DEF Register, Quiet, TypeOK, memVars, pinVars, lockVars, userVars
  <1>9. ~UnderLock(t) /\ ~At(t, "evict") /\ ~UnderLock(t)' /\ ~Unspilling(t)'
    BY <1>6, <1>7 DEF UnderLock, Unspilling, At
  <1>10. Covers(t)' BY <1>8, <1>9, OwnsNothing DEF Covers, Quiet
  <1>11. ArgInv(t)' BY <1>1, <1>7, <1>8, <1>9 DEF ArgInv, At, Quiet
  <1>12. VictimInv(t)' BY <1>7 DEF VictimInv, At
  <1>13. FrameStep(t) BY <1>5, <1>7 DEF FrameStep, IInv, DstInv
  <1>14. DstInv(t)' BY <1>1, <1>7, <1>8, <1>13 DEF DstInv, Made, At, FrameStep
  <1>15. PlaceInv(t)' BY <1>1, <1>7, <1>8 DEF PlaceInv, At, Quiet
  <1> QED BY <1>8, <1>10, <1>11, <1>12, <1>13, <1>14, <1>15, CallOnly DEF OwnInv

(* Steps under the lock of a buffer. *)

\* Nothing changes but this buffer, whose lock is the thread's or free.
OnlyBuffer(t, b) ==
  /\ \A c \in Buffers \ {b} :
       /\ type'[c] = type[c] /\ device'[c] = device[c]
       /\ staged'[c] = staged[c] /\ exposed'[c] = exposed[c]
       /\ spillLocks'[c] = spillLocks[c]
       /\ lockedBy'[c] = lockedBy[c] /\ depth'[c] = depth[c]
  /\ lockedBy[b] \in {None, t} /\ lockedBy'[b] \in {None, t}
  /\ depth'[b] = IF lockedBy'[b] = None THEN 0 ELSE 1
  /\ type[b] = "absent" <=> type'[b] = "absent"
  /\ exposed[b] => exposed'[b]
  /\ spillLocks[b] \subseteq spillLocks'[b]
  /\ context' = context /\ held' = held

LEMMA LockedStep ==
  ASSUME IInv, NEW t \in Threads, NEW b \in Buffers, OnlyBuffer(t, b), FrameStep(t),
         TypeOK', BufferInv(b)', Covers(t)', OwnInv(t)'
  PROVE IInv'
  <1>1. FramesKept(t) BY DEF FramesKept, FrameStep, OnlyBuffer
  <1>2. DstsKept(t)
    <2>1. \A c \in Buffers : type[c] = "absent" => type'[c] = "absent"
      BY DEF OnlyBuffer
    <2>2. \A u \in Threads : call[u].dst \in Buffers \cup {None}
      BY DEF IInv, TypeOK, CallType
    <2> QED BY <2>1, <2>2 DEF DstsKept, FrameStep
  <1>3. LocksKept(t)
    <2> SUFFICES ASSUME NEW c \in Buffers, NEW u \in Threads \ {t}
        PROVE /\ lockedBy'[c] = u => lockedBy[c] = u
              /\ lockedBy[c] = u => /\ lockedBy'[c] = u
                                    /\ type'[c] = type[c]
                                    /\ staged'[c] = staged[c]
                                    /\ ~exposed[c] => ~exposed'[c]
                                    /\ spillLocks'[c] \subseteq spillLocks[c]
                                    /\ device[c] # None => device'[c] # None
      BY DEF LocksKept
    <2>1. CASE c = b BY <2>1, BuffersAreNotNone DEF OnlyBuffer
    <2>2. CASE c # b BY <2>2 DEF OnlyBuffer
    <2> QED BY <2>1, <2>2
  <1>4. ArgsKept(t) BY DEF ArgsKept, OnlyBuffer
  <1>5. OwnLocks(t)'
    <2> SUFFICES ASSUME NEW c \in Buffers
                 PROVE /\ depth'[c] = IF lockedBy'[c] = None THEN 0 ELSE 1
                       /\ lockedBy'[c] = t => \/ UnderLock(t)' /\ call'[t].arg = c
                                              \/ At(t, "evict")' /\ call'[t].victim = c
      BY DEF OwnLocks
    <2>1. depth'[c] = IF lockedBy'[c] = None THEN 0 ELSE 1
      <3>1. depth[c] = IF lockedBy[c] = None THEN 0 ELSE 1 BY DEF IInv, LockInv
      <3> QED BY <3>1 DEF OnlyBuffer
    <2> QED BY <2>1 DEF Covers
  <1>6. ASSUME NEW c \in Buffers PROVE BufferInv(c)'
    <2>1. CASE c = b BY <2>1
    <2>2. CASE c # b
      <3>1. BufferInv(c) BY DEF IInv
      <3> QED BY <3>1, <2>2 DEF BufferInv, Spillable, OnlyBuffer
    <2> QED BY <2>1, <2>2
  <1> QED BY <1>1, <1>2, <1>3, <1>4, <1>5, <1>6, Assemble DEF KeepsOthers

\* What a locked region knows of its buffer.
LEMMA Inside ==
  ASSUME IInv, NEW t \in Threads, UnderLock(t)
  PROVE /\ call[t].arg \in Buffers
        /\ lockedBy[call[t].arg] = t /\ depth[call[t].arg] = 1
        /\ type[call[t].arg] # "absent"
        /\ \A b \in Buffers : lockedBy[b] = t /\ ~At(t, "evict") => b = call[t].arg
  <1>1. TypeOK /\ ArgInv(t) BY DEF IInv
  <1>2. call[t].arg \in Buffers /\ lockedBy[call[t].arg] = t /\ type[call[t].arg] # "absent"
    BY <1>1 DEF ArgInv, TypeOK, CallType
  <1>3. LockInv(call[t].arg) BY <1>2 DEF IInv
  <1>4. depth[call[t].arg] = 1 BY <1>2, <1>3, BuffersAreNotNone DEF LockInv
  <1>5. \A b \in Buffers : lockedBy[b] = t /\ ~At(t, "evict") => b = call[t].arg
    BY DEF IInv, LockInv
  <1> QED BY <1>2, <1>4, <1>5

LEMMA LastUnlock ==
  ASSUME IInv, NEW t \in Threads, NEW b \in Buffers, lockedBy[b] = t, Unlock(t, b)
  PROVE /\ lockedBy' = [lockedBy EXCEPT ![b] = None]
        /\ depth' = [depth EXCEPT ![b] = 0]
  <1>1. depth[b] = 1 /\ TypeOK BY BuffersAreNotNone DEF IInv, LockInv
  <1>2. depth' = [depth EXCEPT ![b] = 0] BY <1>1 DEF Unlock, TypeOK
  <1> QED BY <1>1, <1>2 DEF Unlock

\* Leaving the locked region of b and the call.
Leaves(t, b, pins) ==
  /\ Unlock(t, b) /\ Return(t)
  /\ UNCHANGED <<type, device, memoryview, rank, managed, context, held, callsLeft,
                 exposed>>
  /\ \/ staged' = staged
     \/ staged' = [staged EXCEPT ![b] = None]
  /\ spillLocks' = [spillLocks EXCEPT ![b] = @ \cup pins]

LEMMA UnlockReturn ==
  ASSUME IInv, NEW t \in Threads, UnderLock(t), ~At(t, "evict"),
         NEW pins \in SUBSET Frames,
         pins # {} => type[call[t].arg] = "gpu",
         Leaves(t, call[t].arg, pins)
  PROVE IInv'
  <1> PICK b : b = call[t].arg OBVIOUS
  <1>1. TypeOK BY DEF IInv
  <1>2. b \in Buffers /\ lockedBy[b] = t /\ type[b] # "absent"
        /\ \A c \in Buffers : lockedBy[c] = t => c = b
    BY Inside
  <1>3. lockedBy' = [lockedBy EXCEPT ![b] = None] /\ depth' = [depth EXCEPT ![b] = 0]
    BY <1>2, LastUnlock DEF Leaves
  <1>4. OwnInv(t)' /\ ~UnderLock(t)' /\ ~At(t, "evict")' BY ReturnOwn DEF Leaves
  <1>5. FrameStep(t) BY <1>1, ReturnFields DEF FrameStep, Leaves
  <1>6. TypeOK'
    <2>1. spillLocks' \in [Buffers -> SUBSET (Threads \cup Frames)]
      BY <1>1, <1>2 DEF TypeOK, Leaves
    <2>2. staged' \in [Buffers -> Bytes] BY <1>1, <1>2 DEF TypeOK, Bytes, Leaves
    <2>3. lockedBy' \in [Buffers -> Threads \cup {None}] /\ depth' \in [Buffers -> Nat]
      BY <1>1, <1>2, <1>3 DEF TypeOK
    <2> QED BY <1>1, <1>5, <2>1, <2>2, <2>3 DEF TypeOK, FrameStep, Leaves
  <1>7. OnlyBuffer(t, b)
    BY <1>1, <1>2, <1>3 DEF OnlyBuffer, TypeOK, Leaves
  <1>8. Covers(t)'
    <2>1. \A c \in Buffers : lockedBy'[c] # t
      BY <1>1, <1>2, <1>3, BuffersAreNotNone DEF TypeOK
    <2> QED BY <2>1 DEF Covers
  <1>9. BufferInv(b)'
    <2>1. BufferInv(b) BY <1>2 DEF IInv
    <2>2. spillLocks'[b] = spillLocks[b] \cup pins BY <1>1, <1>2 DEF TypeOK, Leaves
    <2> QED BY <2>1, <2>2 DEF BufferInv, Spillable, Leaves
  <1> QED BY <1>2, <1>4, <1>5, <1>6, <1>7, <1>8, <1>9, LockedStep

LEMMA UnspillEndInv ==
  ASSUME IInv, NEW t \in Threads, UnspillEnd(t) PROVE IInv'
  <1>1. UnderLock(t) /\ ~At(t, "evict") BY DEF UnspillEnd, UnderLock, At
  <1>2. Leaves(t, call[t].arg, {})
    BY DEF UnspillEnd, Leaves, memVars, pinVars, userVars, IInv, TypeOK
  <1> QED BY <1>1, <1>2, UnlockReturn

LEMMA RaisesInv ==
  ASSUME IInv, NEW t \in Threads, Raises(t) PROVE IInv'
  <1>1. UnderLock(t) /\ ~At(t, "evict") BY DEF Raises, UnderLock, At
  <1>2. Leaves(t, call[t].arg, {})
    BY DEF Raises, Leaves, memVars, pinVars, userVars, IInv, TypeOK
  <1> QED BY <1>1, <1>2, UnlockReturn

LEMMA SerializeInv ==
  ASSUME IInv, NEW t \in Threads, Serialize(t) PROVE IInv'
  <1>1. UnderLock(t) /\ ~At(t, "evict") BY DEF Serialize, UnderLock, At
  <1>2. type[call[t].arg] = "gpu" BY DEF Serialize, Spilled
  <1>3. CASE FreeFrames = {}
    <2>1. Leaves(t, call[t].arg, {})
      BY <1>3 DEF Serialize, Leaves, memVars, pinVars, userVars, IInv, TypeOK
    <2> QED BY <1>1, <2>1, UnlockReturn
  <1>4. CASE FreeFrames # {}
    <2>1. PICK f \in FreeFrames :
            spillLocks' = [spillLocks EXCEPT ![call[t].arg] = @ \cup {f}]
      BY <1>4 DEF Serialize
    <2>2. {f} \in SUBSET Frames BY DEF FreeFrames
    <2>3. Leaves(t, call[t].arg, {f})
      BY <2>1 DEF Serialize, Leaves, memVars, pinVars, userVars
    <2> QED BY <1>1, <1>2, <2>2, <2>3, UnlockReturn
  <1> QED BY <1>3, <1>4

LEMMA GiveUpInv ==
  ASSUME IInv, NEW t \in Threads, GiveUp(t) PROVE IInv'
  <1>1. TypeOK BY DEF IInv
  <1>2. CASE call[t].back = "alloc"
    <2>1. UnderLock(t) /\ ~At(t, "evict")
      BY <1>2 DEF GiveUp, ScanDone, UnderLock, Unspilling, At
    <2>2. Leaves(t, call[t].arg, {})
      BY <1>1, <1>2 DEF GiveUp, Leaves, TypeOK, memVars, pinVars, userVars
    <2> QED BY <2>1, <2>2, UnlockReturn
  <1>3. CASE call[t].back # "alloc"
    <2>1. Quiet /\ Return(t)
      BY <1>1, <1>3 DEF GiveUp, Quiet, TypeOK, memVars, pinVars, lockVars, userVars
    <2>2. ~UnderLock(t) /\ ~At(t, "evict")
      BY <1>3 DEF GiveUp, ScanDone, UnderLock, Unspilling, At
    <2> QED BY <2>1, <2>2, ReturnQuiet
  <1> QED BY <1>2, <1>3

\* From one place of the locked region of b to another: only b's bytes change.
Stays(t, b, label) ==
  /\ Goto(t, label)
  /\ label \in {"alloc", "settle", "unspilled", "dtoh", "host"}
  /\ UNCHANGED <<exposed, spillLocks, rank, lockedBy, depth, managed, context, held,
                 callsLeft>>
  /\ type' \in [Buffers -> {"absent", "gpu", "cpu"}]
  /\ device' \in [Buffers -> Bytes] /\ memoryview' \in [Buffers -> Bytes]
  /\ staged' \in [Buffers -> Bytes]
  /\ \A c \in Buffers \ {b} : /\ type'[c] = type[c] /\ device'[c] = device[c]
                              /\ staged'[c] = staged[c]
  /\ type'[b] # "absent"

LEMMA StayLocked ==
  ASSUME IInv, NEW t \in Threads, UnderLock(t), ~At(t, "evict"),
         NEW b \in Buffers, b = call[t].arg,
         NEW label, Stays(t, b, label),
         BufferInv(b)', ArgInv(t)', UnderLock(t)'
  PROVE IInv'
  <1>1. TypeOK /\ DstInv(t) BY DEF IInv
  <1>2. label \in Labels \ {"idle", "leave", "limit", "evict", "new", "register"}
    BY DEF Stays, Labels
  <1>3. /\ call' \in [Threads -> CallType] /\ call'[t].arg = b
    BY <1>1, <1>2, GotoFields DEF Stays
  <1>4. /\ lockedBy[b] = t /\ depth[b] = 1 /\ type[b] # "absent"
        /\ \A c \in Buffers : lockedBy[c] = t => c = b
    BY Inside
  <1>5. FrameStep(t) BY <1>2, GotoFrameStep DEF Stays
  <1>6. TypeOK' BY <1>1, <1>3 DEF TypeOK, Stays
  <1>7. OnlyBuffer(t, b) BY <1>4, BuffersAreNotNone DEF OnlyBuffer, Stays
  <1>8. Covers(t)' BY <1>3, <1>4 DEF Covers, Stays
  <1>9. VictimInv(t)' /\ DstInv(t)' /\ PlaceInv(t)'
    <2>1. ~Made(t) BY DEF Made, UnderLock, Unspilling, At
    <2>2. call[t].dst # None => type'[call[t].dst] = type[call[t].dst]
      <3>1. call[t].dst \in Buffers \cup {None} BY <1>1 DEF TypeOK, CallType
      <3>2. call[t].dst # None => call[t].dst # b BY <1>1, <1>4, <2>1 DEF DstInv
      <3> QED BY <3>1, <3>2 DEF Stays
    <2> QED BY <1>2, <2>1, <2>2, GotoPlain DEF Stays
  <1> QED BY <1>5, <1>6, <1>7, <1>8, <1>9, LockedStep DEF OwnInv

LEMMA PopMemoryviewInv ==
  ASSUME IInv, NEW t \in Threads, PopMemoryview(t) PROVE IInv'
  <1> PICK b : b = call[t].arg OBVIOUS
  <1>1. TypeOK /\ ArgInv(t) BY DEF IInv
  <1>2. UnderLock(t) /\ ~At(t, "evict") BY DEF PopMemoryview, UnderLock, At
  <1>3. b \in Buffers /\ type[b] # "absent" /\ lockedBy[b] = t BY <1>2, Inside
  <1>4. call'[t].pc = "alloc" /\ call'[t].arg = b
    BY <1>1, GotoFields DEF PopMemoryview, Labels
  <1>5. UnderLock(t)' BY <1>4 DEF UnderLock, Unspilling, At
  <1>6. Stays(t, b, "alloc")
    BY <1>1, <1>3 DEF PopMemoryview, Stays, TypeOK, Bytes, pinVars, lockVars, userVars
  <1>7. BufferInv(b)'
    BY <1>3 DEF IInv, BufferInv, Spillable, PopMemoryview, pinVars, userVars
  <1>8. type[b] = "cpu" /\ Spillable(b) /\ memoryview[b] # None
    BY <1>1, <1>3 DEF PopMemoryview, Spilled, TypeOK
  <1>9. ArgInv(t)'
    <2>1. type'[b] = "cpu" /\ Spillable(b)' /\ staged'[b] # None /\ lockedBy'[b] = t
      BY <1>1, <1>3, <1>8 DEF PopMemoryview, Spillable, TypeOK, pinVars, lockVars
    <2> QED BY <1>4, <2>1, <1>3, BuffersAreNotNone DEF ArgInv, At
  <1> QED BY <1>2, <1>3, <1>5, <1>6, <1>7, <1>9, StayLocked

LEMMA AllocInv ==
  ASSUME IInv, NEW t \in Threads, Alloc(t) PROVE IInv'
  <1> PICK b : b = call[t].arg OBVIOUS
  <1>1. TypeOK /\ ArgInv(t) /\ PlaceInv(t) BY DEF IInv
  <1>2. Unspilling(t) /\ UnderLock(t) /\ ~At(t, "evict")
    BY DEF Alloc, UnderLock, Unspilling, At
  <1>3. b \in Buffers /\ type[b] = "cpu" /\ Spillable(b) /\ staged[b] # None
        /\ lockedBy[b] = t
    BY <1>1, <1>2, Inside DEF ArgInv
  <1>4. call'[t].pc = "settle" /\ call'[t].arg = b
    BY <1>1, GotoFields DEF Alloc, Labels
  <1>5. UnderLock(t)' /\ ~Unspilling(t)' BY <1>4 DEF UnderLock, Unspilling, At
  <1>6. Stays(t, b, "settle")
    BY <1>1, <1>3 DEF Alloc, Stays, TypeOK, Bytes, pinVars, lockVars, userVars
  <1>7. type'[b] = "cpu" /\ Spillable(b)' /\ device'[b] # None /\ lockedBy'[b] = t
      BY <1>1, <1>3 DEF Alloc, Spillable, TypeOK, pinVars, lockVars
  <1>8. BufferInv(b)'
    <2>1. BufferInv(b) BY <1>3 DEF IInv
    <2> QED BY <2>1, <1>3, <1>7 DEF BufferInv, Alloc, pinVars, userVars
  <1>9. ArgInv(t)'
    BY <1>3, <1>4, <1>5, <1>7, BuffersAreNotNone DEF ArgInv, At
  <1> QED BY <1>2, <1>3, <1>5, <1>6, <1>8, <1>9, StayLocked

LEMMA SettleInv ==
  ASSUME IInv, NEW t \in Threads, Settle(t) PROVE IInv'
  <1> PICK b : b = call[t].arg OBVIOUS
  <1>1. TypeOK /\ ArgInv(t) BY DEF IInv
  <1>2. UnderLock(t) /\ ~At(t, "evict") BY DEF Settle, UnderLock, At
  <1>3. b \in Buffers /\ device[b] # None /\ lockedBy[b] = t
    BY <1>1, <1>2, Inside DEF ArgInv, Settle
  <1>4. call'[t].pc = "unspilled" /\ call'[t].arg = b
    BY <1>1, GotoFields DEF Settle, Labels
  <1>5. UnderLock(t)' BY <1>4 DEF UnderLock, At
  <1>6. Stays(t, b, "unspilled")
    BY <1>1, <1>3 DEF Settle, Stays, TypeOK, Bytes, pinVars, lockVars, userVars
  <1>7. type'[b] = "gpu" /\ device'[b] # None /\ lockedBy'[b] = t
      BY <1>1, <1>3 DEF Settle, TypeOK, lockVars
  <1>8. BufferInv(b)'
    <2>1. BufferInv(b) BY <1>3 DEF IInv
    <2> QED BY <2>1, <1>7 DEF BufferInv, Settle, pinVars, userVars
  <1>9. ArgInv(t)'
    <2>1. ~Unspilling(t)'
      <3>1. call[t].pc = "settle" BY DEF Settle, At
      <3> QED BY <1>4 DEF Unspilling, At
    <2> QED BY <1>3, <1>4, <1>7, <2>1, BuffersAreNotNone DEF ArgInv, At
  <1> QED BY <1>2, <1>3, <1>5, <1>6, <1>8, <1>9, StayLocked

LEMMA SpillBeginInv ==
  ASSUME IInv, NEW t \in Threads, SpillBegin(t) PROVE IInv'
  <1> PICK b : b = call[t].arg OBVIOUS
  <1>1. TypeOK /\ ArgInv(t) BY DEF IInv
  <1>2. UnderLock(t) /\ ~At(t, "evict") BY DEF SpillBegin, UnderLock, At
  <1>3. b \in Buffers /\ type[b] = "gpu" /\ Spillable(b) /\ lockedBy[b] = t
    BY <1>2, Inside DEF SpillBegin, Spilled
  <1>4. call'[t].pc = "dtoh" /\ call'[t].arg = b
    BY <1>1, GotoFields DEF SpillBegin, Labels
  <1>5. UnderLock(t)' /\ ~Unspilling(t)' BY <1>4 DEF UnderLock, Unspilling, At
  <1>6. Stays(t, b, "dtoh")
    BY <1>1, <1>3 DEF SpillBegin, Stays, TypeOK, Bytes, pinVars, lockVars, userVars
  <1>7. type'[b] = "gpu" /\ device'[b] = device[b] /\ Spillable(b)' /\ lockedBy'[b] = t
      BY <1>1, <1>3 DEF SpillBegin, Spillable, TypeOK, pinVars, lockVars
  <1>8. BufferInv(b)'
    <2>1. BufferInv(b) BY <1>3 DEF IInv
    <2> QED BY <2>1, <1>3, <1>7 DEF BufferInv, SpillBegin, pinVars, userVars
  <1>9. ArgInv(t)'
    BY <1>3, <1>4, <1>5, <1>7, BuffersAreNotNone DEF ArgInv, At
  <1> QED BY <1>2, <1>3, <1>5, <1>6, <1>8, <1>9, StayLocked

LEMMA SpillEndInv ==
  ASSUME IInv, NEW t \in Threads, SpillEnd(t) PROVE IInv'
  <1> PICK b : b = call[t].arg OBVIOUS
  <1>1. TypeOK /\ ArgInv(t) BY DEF IInv
  <1>2. UnderLock(t) /\ ~At(t, "evict") BY DEF SpillEnd, UnderLock, At
  <1>3. b \in Buffers /\ Spillable(b) /\ lockedBy[b] = t
    BY <1>1, <1>2, Inside DEF SpillEnd, ArgInv
  <1>4. call'[t].pc = "host" /\ call'[t].arg = b
    BY <1>1, GotoFields DEF SpillEnd, Labels
  <1>5. UnderLock(t)' /\ ~Unspilling(t)'
    <2>1. call[t].pc = "dtoh" BY DEF SpillEnd, At
    <2> QED BY <1>4 DEF UnderLock, Unspilling, At
  <1>6. Stays(t, b, "host")
    BY <1>1, <1>3 DEF SpillEnd, ToHost, Stays, TypeOK, Bytes, pinVars, lockVars, userVars
  <1>7. type'[b] = "cpu" /\ Spillable(b)' /\ lockedBy'[b] = t
      BY <1>1, <1>3 DEF SpillEnd, ToHost, Spillable, TypeOK, pinVars, lockVars
  <1>8. BufferInv(b)'
    <2>1. BufferInv(b) BY <1>3 DEF IInv
    <2> QED BY <2>1, <1>7 DEF BufferInv, SpillEnd, pinVars, userVars
  <1>9. ArgInv(t)'
    BY <1>3, <1>4, <1>5, <1>7, BuffersAreNotNone DEF ArgInv, At
  <1> QED BY <1>2, <1>3, <1>5, <1>6, <1>8, <1>9, StayLocked

LEMMA AcquireInv ==
  ASSUME IInv, NEW t \in Threads, Acquire(t) PROVE IInv'
  <1> PICK b : b = call[t].arg OBVIOUS
  <1>1. TypeOK /\ ArgInv(t) BY DEF IInv
  <1>2. call[t].pc = "wait" BY DEF Acquire, At
  <1>3. b \in Buffers /\ type[b] # "absent" /\ b # None
    BY <1>1, <1>2 DEF ArgInv, TypeOK, CallType
  <1>4. ~UnderLock(t) /\ ~At(t, "evict") BY <1>2 DEF UnderLock, Unspilling, At
  <1>5. \A c \in Buffers : lockedBy[c] # t BY <1>4, OwnsNothing
  <1>6. lockedBy[b] = None /\ depth[b] = 0
    BY <1>3, <1>5 DEF Acquire, CanLock, IInv, LockInv
  <1>7. lockedBy' = [lockedBy EXCEPT ![b] = t] /\ depth' = [depth EXCEPT ![b] = 1]
    BY <1>1, <1>3, <1>6 DEF Acquire, Lock, TypeOK
  <1>8. /\ call' \in [Threads -> CallType] /\ call'[t].pc = "locked"
        /\ call'[t].arg = b /\ call'[t].back = call[t].back
    BY <1>1, GotoFields DEF Acquire, Labels
  <1>9. UNCHANGED <<type, device, memoryview, staged, exposed, spillLocks, rank,
                    managed, need, context, held, callsLeft>>
    BY DEF Acquire, memVars, pinVars, userVars
  <1>10. TypeOK' BY <1>1, <1>3, <1>7, <1>8, <1>9 DEF TypeOK
  <1>11. OnlyBuffer(t, b)
    BY <1>1, <1>3, <1>6, <1>7, <1>9, BuffersAreNotNone DEF OnlyBuffer, TypeOK
  <1>12. Covers(t)'
    BY <1>1, <1>3, <1>5, <1>7, <1>8 DEF Covers, UnderLock, At, TypeOK
  <1>13. BufferInv(b)'
    <2>1. BufferInv(b) BY <1>3 DEF IInv
    <2> QED BY <2>1, <1>9 DEF BufferInv, Spillable
  <1>14. ArgInv(t)'
    <2>1. lockedBy'[b] = t /\ type'[b] # "absent" BY <1>1, <1>3, <1>7, <1>9 DEF TypeOK
    <2>2. ~Unspilling(t)' BY <1>8 DEF Unspilling, At
    <2> QED BY <1>3, <1>8, <2>1, <2>2 DEF ArgInv, At
  <1>15. VictimInv(t)' /\ DstInv(t)' /\ PlaceInv(t)'
    <2>1. ~Made(t) BY <1>2 DEF Made, At
    <2> QED BY <1>9, <2>1, GotoPlain DEF Acquire, Labels
  <1>16. FrameStep(t) BY GotoFrameStep DEF Acquire, Labels
  <1> QED BY <1>3, <1>10, <1>11, <1>12, <1>13, <1>14, <1>15, <1>16, LockedStep DEF OwnInv

\* Out of the locked region of b with what get_ptr needs: b is kept on the device.
LEMMA UnlockToReturn ==
  ASSUME IInv, NEW t \in Threads, At(t, "unspilled"),
         NEW b \in Buffers, b = call[t].arg,
         Unlock(t, b), Goto(t, "ret"),
         UNCHANGED <<type, device, memoryview, staged, managed, context, held, callsLeft>>,
         rank' \in [Buffers -> Ranks],
         \/ /\ call[t].op = "access"
            /\ exposed' = [exposed EXCEPT ![b] = TRUE] /\ UNCHANGED spillLocks
         \/ /\ call[t].op # "access"
            /\ spillLocks' = [spillLocks EXCEPT ![b] = @ \cup {t}] /\ UNCHANGED exposed
  PROVE IInv'
  <1>1. TypeOK /\ ArgInv(t) BY DEF IInv
  <1>2. UnderLock(t) /\ ~At(t, "evict") BY DEF UnderLock, At
  <1>3. lockedBy[b] = t /\ type[b] = "gpu" /\ \A c \in Buffers : lockedBy[c] = t => c = b
    BY <1>1, <1>2, Inside DEF ArgInv
  <1>4. lockedBy' = [lockedBy EXCEPT ![b] = None] /\ depth' = [depth EXCEPT ![b] = 0]
    BY <1>3, LastUnlock
  <1>5. /\ call' \in [Threads -> CallType] /\ call'[t].pc = "ret"
        /\ call'[t].arg = b /\ call'[t].op = call[t].op
    BY <1>1, GotoFields DEF Labels
  <1>6. /\ exposed' \in [Buffers -> BOOLEAN]
        /\ spillLocks' \in [Buffers -> SUBSET (Threads \cup Frames)]
    <2>1. exposed' \in [Buffers -> BOOLEAN]
      <3>1. exposed \in [Buffers -> BOOLEAN] /\ TRUE \in BOOLEAN BY <1>1 DEF TypeOK
      <3>2. [exposed EXCEPT ![b] = TRUE] \in [Buffers -> BOOLEAN] BY <3>1, Zenon
      <3> QED BY <3>1, <3>2
    <2>2. spillLocks' \in [Buffers -> SUBSET (Threads \cup Frames)] BY <1>1 DEF TypeOK
    <2> QED BY <2>1, <2>2
  <1>7. TypeOK' BY <1>1, <1>4, <1>5, <1>6 DEF TypeOK
  <1>8. OnlyBuffer(t, b)
    BY <1>1, <1>3, <1>4 DEF OnlyBuffer, TypeOK
  <1>9. Covers(t)'
    <2>1. \A c \in Buffers : lockedBy'[c] # t
      BY <1>1, <1>3, <1>4, BuffersAreNotNone DEF TypeOK
    <2> QED BY <2>1 DEF Covers
  <1>10. BufferInv(b)'
    <2>1. BufferInv(b) BY DEF IInv
    <2>2. /\ exposed[b] => exposed'[b]
          /\ spillLocks[b] \subseteq spillLocks'[b]
      BY <1>1 DEF TypeOK
    <2> QED BY <1>3, <2>1, <2>2 DEF BufferInv
  <1>11. ArgInv(t)'
    <2>1. ~UnderLock(t)' /\ ~Unspilling(t)' BY <1>5 DEF UnderLock, Unspilling, At
    <2>2. IF call[t].op = "access" THEN exposed'[b] ELSE t \in spillLocks'[b]
      BY <1>1 DEF TypeOK
    <2> QED BY <1>3, <1>5, <2>1, <2>2, BuffersAreNotNone DEF ArgInv, At
  <1>12. VictimInv(t)' /\ DstInv(t)' /\ PlaceInv(t)'
    <2>1. ~Made(t) BY DEF Made, At
    <2> QED BY <2>1, GotoPlain DEF Labels
  <1>13. FrameStep(t) BY GotoFrameStep DEF Labels
  <1> QED BY <1>7, <1>8, <1>9, <1>10, <1>11, <1>12, <1>13, LockedStep DEF OwnInv

LEMMA MarkExposedInv ==
  ASSUME IInv, NEW t \in Threads, MarkExposed(t) PROVE IInv'
  <1> PICK b : b = call[t].arg OBVIOUS
  <1>1. TypeOK BY DEF IInv
  <1>2. UnderLock(t) BY DEF MarkExposed, UnderLock, At
  <1>3. b \in Buffers BY <1>2, Inside
  <1>4. rank' \in [Buffers -> Ranks] BY <1>1, <1>3, TouchType DEF MarkExposed
  <1>5. /\ At(t, "unspilled") /\ call[t].op = "access" /\ Unlock(t, b) /\ Goto(t, "ret")
        /\ UNCHANGED <<type, device, memoryview, staged, managed, context, held, callsLeft>>
        /\ exposed' = [exposed EXCEPT ![b] = TRUE] /\ UNCHANGED spillLocks
    BY DEF MarkExposed, memVars, userVars
  <1> QED BY <1>3, <1>4, <1>5, UnlockToReturn

LEMMA SpillLockInv ==
  ASSUME IInv, NEW t \in Threads, SpillLock(t) PROVE IInv'
  <1> PICK b : b = call[t].arg OBVIOUS
  <1>1. TypeOK BY DEF IInv
  <1>2. UnderLock(t) BY DEF SpillLock, UnderLock, At
  <1>3. b \in Buffers BY <1>2, Inside
  <1>4. rank' \in [Buffers -> Ranks] BY <1>1 DEF SpillLock, TypeOK
  <1>5. /\ At(t, "unspilled") /\ call[t].op # "access" /\ Unlock(t, b) /\ Goto(t, "ret")
        /\ UNCHANGED <<type, device, memoryview, staged, managed, context, held, callsLeft>>
        /\ spillLocks' = [spillLocks EXCEPT ![b] = @ \cup {t}] /\ UNCHANGED exposed
    BY DEF SpillLock, memVars, userVars
  <1> QED BY <1>3, <1>4, <1>5, UnlockToReturn

LEMMA EvictInv ==
  ASSUME IInv, NEW t \in Threads, NEW b \in Buffers, Evict(t, b) PROVE IInv'
  <1>1. TypeOK /\ ArgInv(t) /\ DstInv(t) /\ PlaceInv(t) BY DEF IInv
  <1>2. call[t].pc = "scan" /\ type[b] = "gpu" /\ Spillable(b) /\ CanLock(t, b)
    BY DEF Evict, Evictable, Spilled, At
  <1>3. UnderLock(t) <=> Unspilling(t) BY <1>2 DEF UnderLock, Unspilling, At
  <1>4. lockedBy[b] = None /\ depth[b] = 0
    <2>1. LockInv(b) BY DEF IInv
    <2>2. lockedBy[b] # t
      <3>1. UnderLock(t) /\ call[t].arg = b => type[b] = "cpu" BY <1>1, <1>3 DEF ArgInv
      <3> QED BY <1>2, <2>1, <3>1 DEF LockInv, At
    <2> QED BY <1>2, <2>1, <2>2, BuffersAreNotNone DEF CanLock, LockInv
  <1>5. lockedBy' = [lockedBy EXCEPT ![b] = t] /\ depth' = [depth EXCEPT ![b] = 1]
    BY <1>1, <1>4 DEF Evict, Lock, TypeOK
  <1> DEFINE r == [call[t] EXCEPT !.pc = "evict", !.victim = b, !.todo = Without(t, b)]
  <1>6. call[t] \in CallType BY <1>1 DEF TypeOK
  <1>7. r \in CallType BY <1>1, <1>6, RestIsSnapshot DEF CallType, Labels
  <1>8. Frame(t, r) BY DEF Evict
  <1>9. /\ call' \in [Threads -> CallType] /\ call'[t] = r
        /\ \A u \in Threads \ {t} : call'[u] = call[u]
    BY <1>1, <1>7, <1>8, FrameFields
  <1>10. /\ call'[t].pc = "evict" /\ call'[t].victim = b /\ call'[t].arg = call[t].arg
         /\ call'[t].dst = call[t].dst /\ call'[t].back = call[t].back
         /\ call'[t].op = call[t].op
    BY <1>6, <1>9 DEF CallType
  <1>11. UNCHANGED <<type, device, memoryview, exposed, spillLocks, rank, managed,
                     need, context, held, callsLeft>>
         /\ staged' = [staged EXCEPT ![b] = device[b]]
    BY DEF Evict, pinVars, userVars
  <1>12. TypeOK' BY <1>1, <1>5, <1>9, <1>11 DEF TypeOK, Bytes
  <1>13. OnlyBuffer(t, b)
    BY <1>1, <1>4, <1>5, <1>11, BuffersAreNotNone DEF OnlyBuffer, TypeOK
  <1>14. (Unspilling(t)' <=> Unspilling(t)) /\ (UnderLock(t)' <=> UnderLock(t))
    BY <1>2, <1>3, <1>10 DEF UnderLock, Unspilling, At
  <1>15. Covers(t)'
    <2> SUFFICES ASSUME NEW c \in Buffers, lockedBy'[c] = t
        PROVE \/ UnderLock(t)' /\ call'[t].arg = c
              \/ At(t, "evict")' /\ call'[t].victim = c
      BY DEF Covers
    <2>1. CASE c = b BY <1>10, <2>1 DEF At
    <2>2. CASE c # b
      <3>1. lockedBy[c] = t BY <1>1, <1>5, <2>2 DEF TypeOK
      <3>2. LockInv(c) BY DEF IInv
      <3>3. UnderLock(t) /\ call[t].arg = c BY <1>2, <3>1, <3>2 DEF LockInv, At
      <3> QED BY <1>10, <1>14, <3>3
    <2> QED BY <2>1, <2>2
  <1>16. BufferInv(b)'
    <2>1. BufferInv(b) BY DEF IInv
    <2> QED BY <1>11, <2>1 DEF BufferInv, Spillable
  <1>17. FrameStep(t)
    BY <1>9, <1>10 DEF FrameStep, IInv, DstInv
  <1>18. ArgInv(t)'
    <2>1. call[t].arg # None => call[t].arg \in Buffers BY <1>6 DEF CallType
    <2>2. UnderLock(t) => call[t].arg # b
      BY <1>1, <1>2, <1>3 DEF ArgInv
    <2>3. UnderLock(t) => lockedBy'[call[t].arg] = t /\ staged'[call[t].arg] = staged[call[t].arg]
      <3>1. UnderLock(t) => call[t].arg # None /\ lockedBy[call[t].arg] = t BY <1>1 DEF ArgInv
      <3> QED BY <1>1, <1>5, <1>11, <2>1, <2>2, <3>1 DEF TypeOK
    <2> QED BY <1>1, <1>3, <1>10, <1>11, <1>14, <2>3 DEF ArgInv, At, Spillable
  <1>19. VictimInv(t)'
    <2>1. lockedBy'[b] = t BY <1>1, <1>5 DEF TypeOK
    <2> QED BY <1>2, <1>10, <1>11, <2>1, BuffersAreNotNone DEF VictimInv, Spillable
  <1>20. DstInv(t)'
    <2>1. Made(t) => Made(t)' BY <1>2, <1>10 DEF Made, At
    <2> QED BY <1>1, <1>10, <1>11, <1>17, <2>1 DEF DstInv, FrameStep
  <1>21. PlaceInv(t)' BY <1>1, <1>10, <1>11 DEF PlaceInv, At
  <1> QED BY <1>12, <1>13, <1>15, <1>16, <1>17, <1>18, <1>19, <1>20, <1>21, LockedStep
      DEF OwnInv

LEMMA EvictEndInv ==
  ASSUME IInv, NEW t \in Threads, EvictEnd(t) PROVE IInv'
  <1> PICK b : b = call[t].victim OBVIOUS
  <1>1. TypeOK /\ ArgInv(t) /\ VictimInv(t) /\ DstInv(t) /\ PlaceInv(t) BY DEF IInv
  <1>2. call[t].pc = "evict" BY DEF EvictEnd, At
  <1>3. b \in Buffers /\ lockedBy[b] = t /\ type[b] = "gpu" /\ Spillable(b)
    BY <1>1, <1>2 DEF VictimInv, At, TypeOK, CallType
  <1>4. UnderLock(t) <=> Unspilling(t) BY <1>2 DEF UnderLock, Unspilling, At
  <1>5. lockedBy' = [lockedBy EXCEPT ![b] = None] /\ depth' = [depth EXCEPT ![b] = 0]
    BY <1>3, LastUnlock DEF EvictEnd
  <1> DEFINE rest == IF call[t].got + Size[b] >= need[t] THEN [c \in {} |-> 0]
                     ELSE call[t].todo
             r == [call[t] EXCEPT !.pc = "scan", !.got = @ + Size[b],
                                  !.victim = None, !.todo = rest]
  <1>6. call[t] \in CallType BY <1>1 DEF TypeOK
  <1>7. r \in CallType
    <2>1. rest \in Snapshots BY <1>6, EmptySnapshot DEF CallType
    <2>2. call[t].got + Size[b] \in Nat BY <1>3, <1>6, SizesAreNat DEF CallType
    <2> HIDE DEF rest
    <2> QED BY <1>6, <2>1, <2>2 DEF CallType, Labels
  <1>8. Frame(t, r) BY DEF EvictEnd
  <1>9. /\ call' \in [Threads -> CallType] /\ call'[t] = r
        /\ \A u \in Threads \ {t} : call'[u] = call[u]
    BY <1>1, <1>7, <1>8, FrameFields
  <1>10. /\ call'[t].pc = "scan" /\ call'[t].arg = call[t].arg
         /\ call'[t].dst = call[t].dst /\ call'[t].back = call[t].back
         /\ call'[t].op = call[t].op
    BY <1>6, <1>9 DEF CallType
  <1>11. UNCHANGED <<exposed, spillLocks, rank, managed, need, context, held, callsLeft>>
         /\ memoryview' = [memoryview EXCEPT ![b] = staged[b]]
         /\ staged' = [staged EXCEPT ![b] = None]
         /\ device' = [device EXCEPT ![b] = None]
         /\ type' = [type EXCEPT ![b] = "cpu"]
    BY DEF EvictEnd, ToHost, pinVars, userVars
  <1>12. TypeOK' BY <1>1, <1>3, <1>5, <1>9, <1>11 DEF TypeOK, Bytes
  <1>13. OnlyBuffer(t, b)
    BY <1>1, <1>3, <1>5, <1>11, BuffersAreNotNone DEF OnlyBuffer, TypeOK
  <1>14. (Unspilling(t)' <=> Unspilling(t)) /\ (UnderLock(t)' <=> UnderLock(t))
    BY <1>2, <1>4, <1>10 DEF UnderLock, Unspilling, At
  <1>15. Covers(t)'
    <2> SUFFICES ASSUME NEW c \in Buffers, lockedBy'[c] = t
        PROVE UnderLock(t)' /\ call'[t].arg = c
      BY DEF Covers
    <2>1. c # b /\ lockedBy[c] = t BY <1>1, <1>5, BuffersAreNotNone DEF TypeOK
    <2>2. LockInv(c) BY DEF IInv
    <2>3. UnderLock(t) /\ call[t].arg = c BY <2>1, <2>2 DEF LockInv
    <2> QED BY <1>10, <1>14, <2>3
  <1>16. BufferInv(b)'
    <2>1. BufferInv(b) BY <1>3 DEF IInv
    <2>2. type'[b] = "cpu" BY <1>1, <1>3, <1>11 DEF TypeOK
    <2> QED BY <1>3, <1>11, <2>1, <2>2 DEF BufferInv, Spillable
  <1>17. FrameStep(t)
    BY <1>9, <1>10 DEF FrameStep, IInv, DstInv
  <1>18. ArgInv(t)'
    <2>1. call[t].arg # None => call[t].arg \in Buffers BY <1>6 DEF CallType
    <2>2. UnderLock(t) => call[t].arg # b
      BY <1>1, <1>3, <1>4 DEF ArgInv
    <2>3. UnderLock(t) => /\ lockedBy'[call[t].arg] = t
                          /\ staged'[call[t].arg] = staged[call[t].arg]
                          /\ type'[call[t].arg] = type[call[t].arg]
      <3>1. UnderLock(t) => call[t].arg # None /\ lockedBy[call[t].arg] = t BY <1>1 DEF ArgInv
      <3> QED BY <1>1, <1>5, <1>11, <2>1, <2>2, <3>1 DEF TypeOK
    <2>4. call[t].arg # None => type'[call[t].arg] # "absent"
      BY <1>1, <1>11, <2>1 DEF ArgInv, TypeOK
    <2> QED BY <1>1, <1>4, <1>10, <1>11, <1>14, <2>3, <2>4 DEF ArgInv, At, Spillable
  <1>19. VictimInv(t)' BY <1>10 DEF VictimInv, At
  <1>20. DstInv(t)'
    <2>1. Made(t) => Made(t)' BY <1>2, <1>10 DEF Made, At
    <2>2. call[t].dst # None => call[t].dst \in Buffers BY <1>6 DEF CallType
    <2>3. call[t].dst # None /\ ~Made(t)' => type'[call[t].dst] = "absent"
      BY <1>1, <1>3, <1>11, <2>1, <2>2 DEF DstInv, TypeOK
    <2> QED BY <1>1, <1>10, <1>17, <2>3 DEF DstInv, FrameStep, At
  <1>21. PlaceInv(t)' BY <1>1, <1>10, <1>11 DEF PlaceInv, At
  <1> QED BY <1>3, <1>12, <1>13, <1>15, <1>16, <1>17, <1>18, <1>19, <1>20, <1>21, LockedStep
      DEF OwnInv

\* get_ptr hands out the pointer of a buffer that is kept on the device.
LEMMA ReturnPtrInv ==
  ASSUME IInv, NEW t \in Threads, ReturnPtr(t) PROVE IInv'
  <1> PICK b : b = call[t].arg OBVIOUS
  <1>1. TypeOK /\ ArgInv(t) /\ PlaceInv(t) BY DEF IInv
  <1>2. call[t].pc = "ret" BY DEF ReturnPtr, At
  <1>3. b \in Buffers /\ type[b] # "absent"
        /\ IF call[t].op = "access" THEN exposed[b] ELSE t \in spillLocks[b]
    BY <1>1, <1>2 DEF ArgInv, At, TypeOK, CallType
  <1> DEFINE a == IF call[t].op = "access" THEN Outside ELSE t
  <1>4. UNCHANGED <<type, device, memoryview, staged, exposed, spillLocks, lockedBy, depth,
                    managed, need, context, callsLeft>>
        /\ held' = [held EXCEPT ![a] = @ \cup {b}]
    BY DEF ReturnPtr, memVars, pinVars, lockVars
  <1>5. rank' \in [Buffers -> Ranks]
    <2>1. CASE a = t BY <1>1, <1>3, <2>1, TouchType DEF ReturnPtr
    <2>2. CASE a # t BY <1>1, <2>2 DEF ReturnPtr, TypeOK
    <2> QED BY <2>1, <2>2
  <1>6. ~UnderLock(t) /\ ~At(t, "evict") /\ ~Made(t)
    BY <1>2 DEF UnderLock, Unspilling, At, Made
  <1>7. FrameStep(t) /\ ~UnderLock(t)' /\ ~At(t, "evict")' /\ OwnInv(t)'
    <2>1. CASE call[t].op = "copyDevice"
      <3>1. Goto(t, "new") BY <2>1 DEF ReturnPtr
      <3>2. call'[t].pc = "new" /\ call'[t].arg = b
        BY <1>1, <3>1, GotoFields DEF Labels
      <3>3. FrameStep(t) BY <3>1, GotoFrameStep DEF Labels
      <3>4. ~UnderLock(t)' /\ ~At(t, "evict")' BY <3>2 DEF UnderLock, Unspilling, At
      <3>5. VictimInv(t)' /\ DstInv(t)' /\ PlaceInv(t)'
        <4>1. call[t].dst # None BY <2>1 DEF IInv, DstInv
        <4> QED BY <1>4, <1>6, <3>1, <4>1, GotoOwn DEF Labels
      <3>6. ArgInv(t)'
        <4>1. ~Unspilling(t)' BY <3>2 DEF Unspilling, At
        <4> QED BY <1>3, <1>4, <3>2, <3>4, <4>1, BuffersAreNotNone DEF ArgInv, At
      <3> QED BY <3>3, <3>4, <3>5, <3>6 DEF OwnInv
    <2>2. CASE call[t].op # "copyDevice"
      <3>1. Return(t) BY <2>2 DEF ReturnPtr
      <3>2. FrameStep(t) BY <1>1, <3>1, ReturnFields DEF FrameStep
      <3> QED BY <1>4, <3>1, <3>2, ReturnOwn
    <2> QED BY <2>1, <2>2
  <1>8. TypeOK'
    <2>1. held' \in [Threads \cup {Outside} -> SUBSET Buffers]
      BY <1>1, <1>3, <1>4 DEF TypeOK
    <2> QED BY <1>1, <1>4, <1>5, <1>7, <2>1 DEF TypeOK, FrameStep
  <1>9. KeepsOthers(t)
    BY <1>4, <1>7 DEF KeepsOthers, FramesKept, DstsKept, LocksKept, ArgsKept, FrameStep
  <1>10. OwnLocks(t)'
    BY <1>4, <1>6, OwnsNothing DEF OwnLocks, IInv, LockInv
  <1>11. ASSUME NEW c \in Buffers PROVE BufferInv(c)'
    <2>1. BufferInv(c) BY DEF IInv
    <2>2. ASSUME NEW u \in Threads, c \in held'[u] PROVE u \in spillLocks[c]
      <3>1. CASE c \in held[u] BY <2>1, <3>1 DEF BufferInv
      <3>2. CASE c \notin held[u]
        <4>1. u = a /\ c = b BY <1>1, <1>4, <2>2, <3>2 DEF TypeOK
        <4>2. Outside \notin Threads BY NamesDiffer
        <4> QED BY <1>3, <4>1, <4>2
      <3> QED BY <3>1, <3>2
    <2>3. c \in held'[Outside] => exposed[c]
      <3>1. CASE c \in held[Outside] BY <2>1, <3>1 DEF BufferInv
      <3>2. CASE c \notin held[Outside]
        <4>1. Outside \notin Threads BY NamesDiffer
        <4> QED BY <1>1, <1>3, <1>4, <3>2, <4>1 DEF TypeOK
      <3> QED BY <3>1, <3>2
    <2> QED BY <1>4, <2>1, <2>2, <2>3 DEF BufferInv, Spillable
  <1> QED BY <1>7, <1>8, <1>9, <1>10, <1>11, Assemble

(* Steps that make a buffer. *)

\* Nobody has a buffer that does not exist.
LEMMA AbsentIsFree ==
  ASSUME IInv, NEW c \in Buffers, type[c] = "absent"
  PROVE /\ lockedBy[c] = None /\ depth[c] = 0
        /\ Spillable(c)
        /\ \A a \in Threads \cup {Outside} : c \notin held[a]
  <1>1. TypeOK /\ BufferInv(c) /\ LockInv(c) BY DEF IInv
  <1>2. Spillable(c) BY <1>1 DEF BufferInv
  <1>3. ASSUME NEW u \in Threads PROVE lockedBy[c] # u
    <2>1. ArgInv(u) /\ VictimInv(u) BY DEF IInv
    <2>2. ~(UnderLock(u) /\ call[u].arg = c) BY <2>1 DEF ArgInv
    <2>3. ~(At(u, "evict") /\ call[u].victim = c) BY <2>1 DEF VictimInv
    <2> QED BY <1>1, <2>2, <2>3 DEF LockInv
  <1>4. lockedBy[c] = None BY <1>1, <1>3 DEF TypeOK
  <1>5. depth[c] = 0 BY <1>1, <1>4 DEF LockInv
  <1> QED BY <1>1, <1>2, <1>4, <1>5 DEF BufferInv, Spillable

\* The only buffers that change are b, which is unlocked, and the new buffer c.
Makes(t, b, c) ==
  /\ type[c] = "absent" /\ type'[c] \in {"gpu", "cpu"} /\ c # b
  /\ type'[c] = "gpu" => device'[c] # None
  /\ exposed'[c] => type'[c] = "gpu"
  /\ spillLocks' = spillLocks
  /\ \A x \in Buffers \ {c} :
       /\ type'[x] = type[x] /\ device'[x] = device[x] /\ exposed'[x] = exposed[x]
  /\ staged' = staged /\ context' = context
  /\ \A u \in Threads \ {t} : call[u].dst # c
  /\ \A a \in Threads : held'[a] = held[a]
  /\ \A x \in Buffers : x \in held'[Outside] => x \in held[Outside] \/ (x = c /\ exposed'[c])

\* The locks after the step: b's, if the thread had it, is free.
Unlocks(t, b) ==
  /\ \A x \in Buffers \ {b} : lockedBy'[x] = lockedBy[x] /\ depth'[x] = depth[x]
  /\ b \in Buffers => /\ lockedBy[b] = t \/ lockedBy'[b] = lockedBy[b]
                      /\ lockedBy'[b] # t
                      /\ depth'[b] = IF lockedBy'[b] = None THEN 0 ELSE 1
                      /\ lockedBy[b] = t => lockedBy'[b] = None
  /\ \A x \in Buffers : lockedBy[x] = t => x = b

LEMMA MakesBuffer ==
  ASSUME IInv, NEW t \in Threads, NEW b, NEW c \in Buffers,
         Makes(t, b, c), Unlocks(t, b), FrameStep(t), TypeOK', OwnInv(t)'
  PROVE IInv'
  <1>1. TypeOK BY DEF IInv
  <1>2. /\ lockedBy[c] = None /\ depth[c] = 0 /\ ~exposed[c] /\ spillLocks[c] = {}
        /\ \A a \in Threads \cup {Outside} : c \notin held[a]
    BY AbsentIsFree DEF Makes, Spillable
  <1>3. FramesKept(t) BY DEF FramesKept, FrameStep, Makes
  <1>4. DstsKept(t)
    <2>1. \A u \in Threads : call[u].dst \in Buffers \cup {None}
      BY <1>1 DEF TypeOK, CallType
    <2> QED BY <2>1 DEF DstsKept, FrameStep, Makes
  <1>5. LocksKept(t)
    <2> SUFFICES ASSUME NEW x \in Buffers, NEW u \in Threads \ {t}
        PROVE /\ lockedBy'[x] = u => lockedBy[x] = u
              /\ lockedBy[x] = u => /\ lockedBy'[x] = u
                                    /\ type'[x] = type[x]
                                    /\ staged'[x] = staged[x]
                                    /\ ~exposed[x] => ~exposed'[x]
                                    /\ spillLocks'[x] \subseteq spillLocks[x]
                                    /\ device[x] # None => device'[x] # None
      BY DEF LocksKept
    <2>1. /\ lockedBy'[x] = u => lockedBy[x] = u
          /\ lockedBy[x] = u => lockedBy'[x] = u
      BY BuffersAreNotNone DEF Unlocks
    <2>2. lockedBy[x] = u => x # c BY <1>2, BuffersAreNotNone
    <2> QED BY <2>1, <2>2 DEF Makes
  <1>6. ArgsKept(t)
    BY <1>2 DEF ArgsKept, Makes
  <1>7. OwnLocks(t)'
    <2> SUFFICES ASSUME NEW x \in Buffers
        PROVE depth'[x] = (IF lockedBy'[x] = None THEN 0 ELSE 1) /\ lockedBy'[x] # t
      BY DEF OwnLocks
    <2>1. depth[x] = IF lockedBy[x] = None THEN 0 ELSE 1 BY DEF IInv, LockInv
    <2> QED BY <2>1 DEF Unlocks
  <1>8. ASSUME NEW x \in Buffers PROVE BufferInv(x)'
    <2>1. BufferInv(x) BY DEF IInv
    <2>2. CASE x = c BY <1>2, <2>2 DEF BufferInv, Spillable, Makes
    <2>3. CASE x # c BY <2>1, <2>3 DEF BufferInv, Spillable, Makes
    <2> QED BY <2>2, <2>3
  <1> QED BY <1>3, <1>4, <1>5, <1>6, <1>7, <1>8, Assemble DEF KeepsOthers

LEMMA NewBlockInv ==
  ASSUME IInv, NEW t \in Threads, NEW v \in Values, NewBlock(t, v) PROVE IInv'
  <1> PICK c : c = call[t].dst OBVIOUS
  <1>1. TypeOK /\ ArgInv(t) /\ DstInv(t) /\ PlaceInv(t) BY DEF IInv
  <1>2. call[t].pc = "new" BY DEF NewBlock, At
  <1>3. c \in Buffers /\ c # None /\ type[c] = "absent"
        /\ \A u \in Threads \ {t} : call[u].dst # c
    BY <1>1, <1>2 DEF DstInv, Made, At, TypeOK, CallType
  <1>4. ~UnderLock(t) /\ ~At(t, "evict") BY <1>2 DEF UnderLock, Unspilling, At
  <1>5. /\ call' \in [Threads -> CallType] /\ call'[t].pc = "register"
        /\ call'[t].arg = call[t].arg /\ call'[t].dst = c
        /\ call'[t].op = call[t].op /\ call'[t].back = call[t].back
    BY <1>1, GotoFields DEF NewBlock, Labels
  <1>6. UNCHANGED <<memoryview, staged, spillLocks, lockedBy, depth, managed, need,
                    context, callsLeft>>
        /\ device' = [device EXCEPT ![c] = v]
        /\ type' = [type EXCEPT ![c] = "gpu"]
        /\ exposed' = [exposed EXCEPT ![c] = call[t].op = "createExposed"]
        /\ held' = [held EXCEPT ![Outside] =
                      IF call[t].op = "createExposed" THEN @ \cup {c} ELSE @]
    BY DEF NewBlock, lockVars
  <1>7. TypeOK'
    <2>1. rank' \in [Buffers -> Ranks] BY <1>1, <1>3, TouchType DEF NewBlock
    <2>2. exposed' \in [Buffers -> BOOLEAN]
      <3>1. exposed \in [Buffers -> BOOLEAN] /\ (call[t].op = "createExposed") \in BOOLEAN
        BY <1>1 DEF TypeOK
      <3> QED BY <1>6, <3>1, Zenon
    <2>3. /\ type' \in [Buffers -> {"absent", "gpu", "cpu"}]
          /\ device' \in [Buffers -> Bytes]
          /\ held' \in [Threads \cup {Outside} -> SUBSET Buffers]
      BY <1>1, <1>3, <1>6 DEF TypeOK, Bytes
    <2> QED BY <1>1, <1>5, <1>6, <2>1, <2>2, <2>3 DEF TypeOK
  <1>8. Makes(t, None, c)
    <2>1. v # None /\ c # None /\ Outside \notin Threads BY NamesDiffer, <1>3
    <2>2. type'[c] = "gpu" /\ device'[c] = v
      BY <1>1, <1>3, <1>6 DEF TypeOK
    <2>3. exposed'[c] <=> call[t].op = "createExposed"
      BY <1>1, <1>3, <1>6, Zenon DEF TypeOK
    <2>4. \A x \in Buffers \ {c} :
            /\ type'[x] = type[x] /\ device'[x] = device[x] /\ exposed'[x] = exposed[x]
      BY <1>1, <1>6 DEF TypeOK
    <2>5. /\ \A a \in Threads : held'[a] = held[a]
          /\ \A x \in Buffers : x \in held'[Outside]
                => x \in held[Outside] \/ (x = c /\ call[t].op = "createExposed")
      BY <1>1, <1>6, <2>1 DEF TypeOK
    <2> QED BY <1>3, <1>6, <2>1, <2>2, <2>3, <2>4, <2>5 DEF Makes
  <1>9. Unlocks(t, None)
    BY <1>4, <1>6, OwnsNothing, BuffersAreNotNone DEF Unlocks
  <1>10. FrameStep(t) BY GotoFrameStep DEF NewBlock, Labels
  <1>11. VictimInv(t)' /\ DstInv(t)' /\ PlaceInv(t)'
    <2>1. Made(t)' BY <1>5 DEF Made, At
    <2> QED BY <1>3, <1>6, <2>1, GotoOwn DEF NewBlock, Labels
  <1>12. ArgInv(t)'
    <2>1. ~UnderLock(t)' /\ ~Unspilling(t)' BY <1>5 DEF UnderLock, Unspilling, At
    <2>2. call[t].arg # None => type'[call[t].arg] # "absent"
      <3>1. call[t].arg \in Buffers \cup {None} BY <1>1 DEF TypeOK, CallType
      <3> QED BY <1>1, <1>3, <1>6, <3>1 DEF ArgInv, TypeOK
    <2> QED BY <1>5, <2>1, <2>2 DEF ArgInv, At
  <1> QED BY <1>3, <1>7, <1>8, <1>9, <1>10, <1>11, <1>12, MakesBuffer DEF OwnInv

LEMMA StartCreateHostInv ==
  ASSUME IInv, NEW t \in Threads, NEW c \in Buffers, NEW v \in Values,
         StartCreateHost(t, c, v)
  PROVE IInv'
  <1> DEFINE r == [IdleCall EXCEPT !.pc = "register", !.op = "createHost", !.dst = c]
  <1>1. TypeOK /\ PlaceInv(t) BY DEF IInv
  <1>2. Free(c) /\ Start(t, "createHost", r) BY DEF StartCreateHost
  <1>3. r \in CallType BY IdleCallType DEF CallType, Labels, Ops, AllCalls
  <1>4. Frame(t, r) /\ At(t, "idle") BY <1>2 DEF Start
  <1>5. /\ call' \in [Threads -> CallType] /\ call'[t] = r
        /\ \A u \in Threads \ {t} : call'[u] = call[u]
    BY <1>1, <1>3, <1>4, FrameFields
  <1>6. ~UnderLock(t) /\ ~At(t, "evict")
    BY <1>1, <1>4 DEF UnderLock, Unspilling, At, PlaceInv, IdleCall
  <1>7. UNCHANGED <<device, staged, exposed, spillLocks, lockedBy, depth, managed, need,
                    context, held>>
        /\ type' = [type EXCEPT ![c] = "cpu"]
        /\ memoryview' = [memoryview EXCEPT ![c] = v]
    BY DEF StartCreateHost, pinVars, lockVars
  <1>8. TypeOK'
    <2>1. rank' \in [Buffers -> Ranks] BY <1>1, TouchType DEF StartCreateHost
    <2>2. callsLeft \in Nat /\ callsLeft > 0 /\ callsLeft' = callsLeft - 1
      BY <1>1, <1>2 DEF TypeOK, Start
    <2>3. callsLeft' \in Nat BY <2>2
    <2> QED BY <1>1, <1>5, <1>7, <2>1, <2>3 DEF TypeOK, Bytes
  <1>9. Makes(t, None, c)
    <2>1. type[c] = "absent" /\ \A u \in Threads : call[u].dst # c BY <1>2 DEF Free
    <2>2. ~exposed[c] BY <2>1, AbsentIsFree DEF Spillable
    <2>3. type'[c] = "cpu" /\ \A x \in Buffers \ {c} : type'[x] = type[x]
      BY <1>1, <1>7 DEF TypeOK
    <2> QED BY <1>7, <2>1, <2>2, <2>3, BuffersAreNotNone DEF Makes
  <1>10. Unlocks(t, None)
    BY <1>6, <1>7, OwnsNothing, BuffersAreNotNone DEF Unlocks
  <1>11. FrameStep(t) BY <1>2, <1>5 DEF FrameStep, Free
  <1>12. OwnInv(t)'
    <2>1. ~UnderLock(t)' /\ ~Unspilling(t)' BY <1>5 DEF UnderLock, Unspilling, At, IdleCall
    <2>2. ArgInv(t)' BY <1>5, <2>1 DEF ArgInv, At, IdleCall
    <2>3. VictimInv(t)' BY <1>5 DEF VictimInv, At, IdleCall
    <2>4. DstInv(t)'
      <3>1. Made(t)' BY <1>5 DEF Made, At, IdleCall
      <3> QED BY <1>5, <1>11, <3>1, BuffersAreNotNone DEF DstInv, FrameStep, IdleCall, At
    <2>5. PlaceInv(t)' BY <1>5 DEF PlaceInv, At, IdleCall
    <2> QED BY <2>2, <2>3, <2>4, <2>5 DEF OwnInv
  <1> QED BY <1>8, <1>9, <1>10, <1>11, <1>12, MakesBuffer

\* A view leaves the buffer as it was; a host copy of it makes a new one.
LEMMA ReturnViewInv ==
  ASSUME IInv, NEW t \in Threads, UnderLock(t), ~At(t, "evict"), ~Made(t),
         NEW bytes \in Bytes, ReturnView(t, bytes)
  PROVE IInv'
  <1> PICK b : b = call[t].arg OBVIOUS
  <1> PICK c : c = call[t].dst OBVIOUS
  <1>1. TypeOK /\ ArgInv(t) /\ DstInv(t) /\ PlaceInv(t) BY DEF IInv
  <1>2. b \in Buffers /\ lockedBy[b] = t /\ type[b] # "absent"
        /\ \A x \in Buffers : lockedBy[x] = t => x = b
    BY Inside
  <1>3. CASE call[t].op # "copyHost"
    <2>1. Leaves(t, call[t].arg, {})
      BY <1>1, <1>3 DEF ReturnView, Leaves, memVars, pinVars, userVars, TypeOK
    <2> QED BY <2>1, UnlockReturn
  <1>4. CASE call[t].op = "copyHost"
    <2>1. c \in Buffers /\ c # None /\ type[c] = "absent" /\ c # b
          /\ \A u \in Threads \ {t} : call[u].dst # c
      BY <1>1, <1>2, <1>4 DEF DstInv, TypeOK, CallType
    <2>2. lockedBy' = [lockedBy EXCEPT ![b] = None] /\ depth' = [depth EXCEPT ![b] = 0]
      BY <1>2, LastUnlock DEF ReturnView
    <2>3. UNCHANGED <<device, staged, exposed, spillLocks, managed, need, context, held,
                      callsLeft>>
          /\ type' = [type EXCEPT ![c] = "cpu"]
          /\ memoryview' = [memoryview EXCEPT ![c] = bytes]
          /\ Goto(t, "register")
      BY <1>4 DEF ReturnView, pinVars, userVars
    <2>4. /\ call' \in [Threads -> CallType] /\ call'[t].pc = "register"
          /\ call'[t].arg = b /\ call'[t].dst = c
          /\ call'[t].op = call[t].op /\ call'[t].back = call[t].back
      BY <1>1, <2>3, GotoFields DEF Labels
    <2>5. TypeOK'
      <3>1. rank' \in [Buffers -> Ranks] BY <1>1, <1>4, <2>1, TouchType DEF ReturnView
      <3> QED BY <1>1, <1>2, <2>1, <2>2, <2>3, <2>4, <3>1 DEF TypeOK
    <2>6. Makes(t, b, c)
      <3>1. ~exposed[c] BY <2>1, AbsentIsFree DEF Spillable
      <3>2. type'[c] = "cpu" /\ \A x \in Buffers \ {c} : type'[x] = type[x]
        BY <1>1, <2>1, <2>3 DEF TypeOK
      <3> QED BY <2>1, <2>3, <3>1, <3>2 DEF Makes
    <2>7. Unlocks(t, b)
      BY <1>1, <1>2, <2>2, BuffersAreNotNone DEF Unlocks, TypeOK
    <2>8. FrameStep(t) BY <2>3, GotoFrameStep DEF Labels
    <2>9. VictimInv(t)' /\ DstInv(t)' /\ PlaceInv(t)'
      <3>1. Made(t)' BY <2>4 DEF Made, At
      <3> QED BY <2>1, <2>3, <3>1, GotoOwn DEF Labels
    <2>10. ArgInv(t)'
      <3>1. ~UnderLock(t)' /\ ~Unspilling(t)' BY <2>4 DEF UnderLock, Unspilling, At
      <3>2. type'[b] # "absent" BY <1>1, <1>2, <2>1, <2>3 DEF TypeOK
      <3> QED BY <1>2, <2>4, <3>1, <3>2, BuffersAreNotNone DEF ArgInv, At
    <2> QED BY <2>1, <2>5, <2>6, <2>7, <2>8, <2>9, <2>10, MakesBuffer DEF OwnInv
  <1> QED BY <1>3, <1>4

LEMMA ReturnHostInv ==
  ASSUME IInv, NEW t \in Threads, ReturnHost(t) PROVE IInv'
  <1>1. UnderLock(t) /\ ~At(t, "evict") /\ ~Made(t)
    BY DEF ReturnHost, UnderLock, At, Made
  <1>2. memoryview[call[t].arg] \in Bytes BY <1>1, Inside DEF IInv, TypeOK
  <1>3. ReturnView(t, memoryview[call[t].arg]) BY DEF ReturnHost
  <1> QED BY <1>1, <1>2, <1>3, ReturnViewInv

LEMMA ViewPinnedInv ==
  ASSUME IInv, NEW t \in Threads, ViewPinned(t) PROVE IInv'
  <1>1. UnderLock(t) /\ ~At(t, "evict") /\ ~Made(t)
    BY DEF ViewPinned, UnderLock, At, Made
  <1>2. device[call[t].arg] \in Bytes BY <1>1, Inside DEF IInv, TypeOK
  <1>3. ReturnView(t, device[call[t].arg]) BY DEF ViewPinned
  <1> QED BY <1>1, <1>2, <1>3, ReturnViewInv

(* The contexts of a thread. *)

\* The thread's contexts and pins are its own.
LEMMA ContextStep ==
  ASSUME IInv, NEW t \in Threads, FrameStep(t), ~UnderLock(t), ~At(t, "evict"), OwnInv(t)',
         context' \in [Threads -> Nat],
         callsLeft' \in Nat,
         \A u \in Threads \ {t} : context'[u] = context[u],
         UNCHANGED <<type, device, memoryview, staged, exposed, rank, lockedBy, depth,
                     managed>>,
         \/ UNCHANGED <<spillLocks, held>>
         \/ /\ spillLocks' = [b \in Buffers |-> spillLocks[b] \ {t}]
            /\ held' = [held EXCEPT ![t] = {}]
  PROVE IInv'
  <1>1. TypeOK /\ Outside \notin Threads BY NamesDiffer DEF IInv
  <1>2. TypeOK'
    <2>1. held' \in [Threads \cup {Outside} -> SUBSET Buffers] BY <1>1 DEF TypeOK
    <2>2. spillLocks' \in [Buffers -> SUBSET (Threads \cup Frames)] BY <1>1 DEF TypeOK
    <2> QED BY <1>1, <2>1, <2>2 DEF TypeOK, FrameStep
  <1>3. \A b \in Buffers : /\ spillLocks'[b] \subseteq spillLocks[b]
                           /\ \A u \in Threads \ {t} : u \in spillLocks[b] => u \in spillLocks'[b]
    OBVIOUS
  <1>4. KeepsOthers(t)
    BY <1>3 DEF KeepsOthers, FramesKept, DstsKept, LocksKept, ArgsKept, FrameStep
  <1>5. OwnLocks(t)'
    BY OwnsNothing DEF OwnLocks, IInv, LockInv
  <1>6. ASSUME NEW b \in Buffers PROVE BufferInv(b)'
    <2>1. BufferInv(b) BY DEF IInv
    <2>2. Spillable(b) => Spillable(b)' BY <1>3 DEF Spillable
    <2>3. \A u \in Threads : b \in held'[u] => u \in spillLocks'[b]
      BY <1>1, <2>1 DEF BufferInv, TypeOK
    <2>4. b \in held'[Outside] => exposed'[b]
      BY <1>1, <2>1 DEF BufferInv, TypeOK
    <2> QED BY <2>1, <2>2, <2>3, <2>4 DEF BufferInv
  <1> QED BY <1>2, <1>4, <1>5, <1>6, Assemble

LEMMA PopContextFields ==
  ASSUME TypeOK, NEW t \in Threads, context[t] > 0, PopContext(t)
  PROVE /\ context' \in [Threads -> Nat]
        /\ \A u \in Threads \ {t} : context'[u] = context[u]
        /\ \/ UNCHANGED <<spillLocks, held>>
           \/ /\ spillLocks' = [b \in Buffers |-> spillLocks[b] \ {t}]
              /\ held' = [held EXCEPT ![t] = {}]
  <1>1. context[t] \in Nat /\ context[t] - 1 \in Nat BY DEF TypeOK
  <1> QED BY <1>1 DEF TypeOK, PopContext

\* An idle thread's frame asks for nothing.
LEMMA IdleOwn ==
  ASSUME NEW t \in Threads, call'[t] = IdleCall
  PROVE OwnInv(t)'
  <1>1. ~UnderLock(t)' /\ ~At(t, "evict")' /\ ~Unspilling(t)'
    BY DEF UnderLock, Unspilling, At, IdleCall
  <1>2. /\ call'[t].arg = None /\ call'[t].dst = None /\ call'[t].op = "none"
        /\ call'[t].back = "idle" /\ call'[t].pc = "idle"
    BY DEF IdleCall
  <1>3. ArgInv(t)' BY <1>1, <1>2 DEF ArgInv, At
  <1>4. VictimInv(t)' BY <1>1 DEF VictimInv
  <1>5. DstInv(t)' BY <1>2 DEF DstInv, At
  <1>6. PlaceInv(t)' BY <1>2 DEF PlaceInv, At
  <1> QED BY <1>3, <1>4, <1>5, <1>6 DEF OwnInv

LEMMA IdleIsOutside ==
  ASSUME IInv, NEW t \in Threads, At(t, "idle")
  PROVE call[t] = IdleCall /\ ~UnderLock(t) /\ ~At(t, "evict")
  <1>1. PlaceInv(t) BY DEF IInv
  <1> QED BY <1>1 DEF PlaceInv, UnderLock, Unspilling, At, IdleCall

LEMMA EnterContextInv ==
  ASSUME IInv, NEW t \in Threads, EnterContext(t) PROVE IInv'
  <1>1. TypeOK BY DEF IInv
  <1>2. call[t] = IdleCall /\ call' = call /\ ~UnderLock(t) /\ ~At(t, "evict")
    BY IdleIsOutside DEF EnterContext
  <1>3. OwnInv(t)' BY <1>2, IdleOwn
  <1>4. FrameStep(t) BY <1>1, <1>2 DEF FrameStep, IdleCall, TypeOK
  <1>5. context' \in [Threads -> Nat] /\ callsLeft' \in Nat
        /\ \A u \in Threads \ {t} : context'[u] = context[u]
    BY <1>1 DEF EnterContext, TypeOK
  <1>6. UNCHANGED <<type, device, memoryview, staged, exposed, rank, lockedBy, depth,
                     managed>> /\ UNCHANGED <<spillLocks, held>>
    BY DEF EnterContext, memVars, pinVars, lockVars
  <1> QED BY <1>2, <1>3, <1>4, <1>5, <1>6, ContextStep

LEMMA ExitContextInv ==
  ASSUME IInv, NEW t \in Threads, ExitContext(t) PROVE IInv'
  <1>1. TypeOK BY DEF IInv
  <1>2. call[t] = IdleCall /\ call' = call /\ ~UnderLock(t) /\ ~At(t, "evict")
    BY IdleIsOutside DEF ExitContext
  <1>3. OwnInv(t)' BY <1>2, IdleOwn
  <1>4. FrameStep(t) BY <1>1, <1>2 DEF FrameStep, IdleCall, TypeOK
  <1>5. /\ context' \in [Threads -> Nat]
        /\ \A u \in Threads \ {t} : context'[u] = context[u]
        /\ \/ UNCHANGED <<spillLocks, held>>
           \/ /\ spillLocks' = [b \in Buffers |-> spillLocks[b] \ {t}]
              /\ held' = [held EXCEPT ![t] = {}]
    BY <1>1, PopContextFields DEF ExitContext
  <1>6. UNCHANGED <<type, device, memoryview, staged, exposed, rank, lockedBy, depth,
                     managed>> /\ callsLeft' \in Nat
    BY <1>1 DEF ExitContext, memVars, lockVars, TypeOK
  <1> QED BY <1>2, <1>3, <1>4, <1>5, <1>6, ContextStep

LEMMA LeaveCopyInv ==
  ASSUME IInv, NEW t \in Threads, LeaveCopy(t) PROVE IInv'
  <1>1. TypeOK /\ PlaceInv(t) BY DEF IInv
  <1>2. context[t] > 0 /\ ~UnderLock(t) /\ ~At(t, "evict")
    BY <1>1 DEF LeaveCopy, PlaceInv, UnderLock, Unspilling, At
  <1>3. /\ call' \in [Threads -> CallType] /\ call'[t] = IdleCall
        /\ \A u \in Threads \ {t} : call'[u] = call[u]
    BY <1>1, IdleCallType, FrameFields DEF LeaveCopy
  <1>4. FrameStep(t) BY <1>3 DEF FrameStep, IdleCall
  <1>5. OwnInv(t)' BY <1>3, IdleOwn
  <1>6. /\ context' \in [Threads -> Nat]
        /\ \A u \in Threads \ {t} : context'[u] = context[u]
        /\ \/ UNCHANGED <<spillLocks, held>>
           \/ /\ spillLocks' = [b \in Buffers |-> spillLocks[b] \ {t}]
              /\ held' = [held EXCEPT ![t] = {}]
    BY <1>1, <1>2, PopContextFields DEF LeaveCopy
  <1>7. UNCHANGED <<type, device, memoryview, staged, exposed, rank, lockedBy, depth,
                     managed>> /\ callsLeft' \in Nat
    BY <1>1 DEF LeaveCopy, memVars, lockVars, TypeOK
  <1> QED BY <1>2, <1>4, <1>5, <1>6, <1>7, ContextStep

LEMMA StartCopyInv ==
  ASSUME IInv, NEW t \in Threads, NEW b \in Buffers, NEW c \in Buffers, StartCopy(t, b, c)
  PROVE IInv'
  <1> DEFINE name == IF Spilled(b) THEN "copyHost" ELSE "copyDevice"
             r == [IdleCall EXCEPT !.pc = "wait", !.arg = b, !.dst = c, !.op = name]
  <1>1. TypeOK BY DEF IInv
  <1>2. /\ Existing(b) /\ Free(c) /\ Start(t, "copy", r)
        /\ context' = [context EXCEPT ![t] = IF Spilled(b) THEN @ ELSE @ + 1]
        /\ UNCHANGED <<memVars, pinVars, rank, lockVars, managed, need, held>>
    BY DEF StartCopy
  <1>3. r \in CallType
    <2>1. name \in Ops BY DEF Ops
    <2> HIDE DEF name
    <2> QED BY <2>1, IdleCallType DEF CallType, Labels
  <1>4. At(t, "idle") /\ Frame(t, r) /\ callsLeft' \in Nat
    <2>1. callsLeft \in Nat /\ callsLeft > 0 /\ callsLeft' = callsLeft - 1
      BY <1>1, <1>2 DEF TypeOK, Start
    <2> QED BY <1>2, <2>1 DEF Start
  <1>5. ~UnderLock(t) /\ ~At(t, "evict") BY <1>4, IdleIsOutside
  <1>6. /\ call' \in [Threads -> CallType] /\ call'[t] = r
        /\ \A u \in Threads \ {t} : call'[u] = call[u]
    BY <1>1, <1>3, <1>4, FrameFields
  <1>7. /\ call'[t].pc = "wait" /\ call'[t].op = name /\ call'[t].arg = b
        /\ call'[t].dst = c /\ call'[t].back = "idle"
    BY <1>6 DEF IdleCall
  <1>8. FrameStep(t) BY <1>2, <1>6, <1>7 DEF FrameStep, Free
  <1>9. /\ context' \in [Threads -> Nat]
        /\ \A u \in Threads \ {t} : context'[u] = context[u]
        /\ name = "copyDevice" => context'[t] > 0
    BY <1>1, <1>2 DEF TypeOK
  <1>10. UNCHANGED <<type, device, memoryview, staged, exposed, rank, lockedBy, depth,
                     managed>> /\ UNCHANGED <<spillLocks, held>>
    BY <1>2 DEF memVars, pinVars, lockVars
  <1>11. OwnInv(t)'
    <2>1. ~UnderLock(t)' /\ ~At(t, "evict")' /\ ~Unspilling(t)'
      BY <1>7 DEF UnderLock, Unspilling, At
    <2>2. type'[b] # "absent" /\ type'[c] = "absent" /\ b # None
      BY <1>2, <1>10, BuffersAreNotNone DEF Existing, Free
    <2>3. ArgInv(t)' BY <1>7, <2>1, <2>2 DEF ArgInv, At
    <2>4. VictimInv(t)' BY <2>1 DEF VictimInv
    <2>5. DstInv(t)' BY <1>7, <1>8, <2>2, BuffersAreNotNone DEF DstInv, At, FrameStep
    <2>6. PlaceInv(t)' BY <1>7, <1>9 DEF PlaceInv, At
    <2> QED BY <2>3, <2>4, <2>5, <2>6 DEF OwnInv
  <1> QED BY <1>4, <1>5, <1>8, <1>9, <1>10, <1>11, ContextStep

(* What users do between calls. *)

\* No call depends on what the users do to the buffers.
LEMMA UserStep ==
  ASSUME IInv, TypeOK',
         UNCHANGED <<call, context, lockedBy, depth, staged>>,
         \A b \in Buffers : BufferInv(b)',
         \A b \in Buffers :
           /\ type[b] = "absent" => type'[b] = "absent"
           /\ (\E u \in Threads : b = call[u].arg \/ b = call[u].victim)
                => /\ type'[b] = type[b] /\ exposed'[b] = exposed[b]
                   /\ spillLocks'[b] \subseteq spillLocks[b]
                   /\ spillLocks[b] \cap Threads \subseteq spillLocks'[b]
                   /\ device[b] # None => device'[b] # None
  PROVE IInv'
  <1>1. TypeOK BY DEF IInv
  <1>2. ASSUME NEW u \in Threads PROVE ArgInv(u)'
    <2> PICK b : b = call[u].arg OBVIOUS
    <2>1. ArgInv(u) BY DEF IInv
    <2>2. call'[u] = call[u] /\ call'[u].arg = b OBVIOUS
    <2>3. (UnderLock(u)' <=> UnderLock(u)) /\ (Unspilling(u)' <=> Unspilling(u))
      BY <2>2, SameFrame
    <2>4. b \in Buffers \cup {None} BY <1>1 DEF TypeOK, CallType
    <2>5. CASE b = None
      <3>1. call[u].pc \notin {"wait", "ret"} /\ ~UnderLock(u) BY <2>1, <2>5 DEF ArgInv
      <3> QED BY <3>1, <2>2, <2>5 DEF ArgInv, UnderLock, Unspilling, At
    <2>6. CASE b \in Buffers
      <3>1. /\ type'[b] = type[b] /\ exposed'[b] = exposed[b]
            /\ spillLocks'[b] \subseteq spillLocks[b]
            /\ spillLocks[b] \cap Threads \subseteq spillLocks'[b]
            /\ device[b] # None => device'[b] # None
        BY <2>6
      <3>2. Spillable(b) => Spillable(b)'
        <4>1. spillLocks[b] = {} => spillLocks'[b] = {} BY <3>1
        <4> QED BY <3>1, <4>1 DEF Spillable
      <3>3. u \in spillLocks[b] => u \in spillLocks'[b] BY <3>1
      <3>4. staged' = staged /\ lockedBy' = lockedBy OBVIOUS
      <3> QED BY <2>1, <2>2, <2>3, <3>1, <3>2, <3>3, <3>4 DEF ArgInv, At
    <2> QED BY <2>4, <2>5, <2>6
  <1>3. ASSUME NEW u \in Threads PROVE VictimInv(u)'
    <2> PICK b : b = call[u].victim OBVIOUS
    <2>1. VictimInv(u) BY DEF IInv
    <2>2. b \in Buffers \cup {None} BY <1>1 DEF TypeOK, CallType
    <2>3. b \in Buffers => type'[b] = type[b] /\ (Spillable(b) => Spillable(b)')
      <3>1. b \in Buffers => /\ type'[b] = type[b] /\ exposed'[b] = exposed[b]
                             /\ spillLocks'[b] \subseteq spillLocks[b]
        OBVIOUS
      <3>2. b \in Buffers /\ spillLocks[b] = {} => spillLocks'[b] = {} BY <3>1
      <3> QED BY <3>1, <3>2 DEF Spillable
    <2> QED BY <2>1, <2>2, <2>3 DEF VictimInv, At
  <1>4. ASSUME NEW u \in Threads PROVE DstInv(u)'
    <2>1. DstInv(u) BY DEF IInv
    <2>2. call[u].dst \in Buffers \cup {None} BY <1>1 DEF TypeOK, CallType
    <2>3. Made(u)' <=> Made(u) BY DEF Made, At
    <2> QED BY <2>1, <2>2, <2>3 DEF DstInv
  <1>5. ASSUME NEW u \in Threads PROVE PlaceInv(u)'
    BY DEF IInv, PlaceInv, At
  <1>6. ASSUME NEW b \in Buffers PROVE LockInv(b)'
    <2>1. LockInv(b) BY DEF IInv
    <2>2. \A u \in Threads : UnderLock(u)' <=> UnderLock(u) BY SameFrame
    <2> QED BY <2>1, <2>2 DEF LockInv, At
  <1> QED BY <1>2, <1>3, <1>4, <1>5, <1>6 DEF IInv

LEMMA WriteInv ==
  ASSUME IInv, NEW a \in Threads \cup {Outside}, NEW b \in Buffers, NEW v \in Values,
         Write(a, b, v)
  PROVE IInv'
  <1>1. TypeOK BY DEF IInv
  <1>2. /\ device' = [device EXCEPT ![b] = v]
        /\ UNCHANGED <<type, memoryview, staged, exposed, spillLocks, rank, lockedBy, depth,
                       managed, call, need, context, held, callsLeft>>
    BY DEF Write, pinVars, lockVars, userVars
  <1>3. v # None BY NamesDiffer
  <1>4. TypeOK' BY <1>1, <1>2 DEF TypeOK, Bytes
  <1>5. \A c \in Buffers : device[c] # None => device'[c] # None
    BY <1>1, <1>2, <1>3 DEF TypeOK
  <1>6. ASSUME NEW c \in Buffers PROVE BufferInv(c)'
    <2>1. BufferInv(c) BY DEF IInv
    <2> QED BY <1>2, <1>5, <2>1 DEF BufferInv, Spillable
  <1> QED BY <1>2, <1>4, <1>5, <1>6, UserStep

LEMMA ReleaseFrameInv ==
  ASSUME IInv, NEW f \in Frames, ReleaseFrame(f) PROVE IInv'
  <1>1. TypeOK /\ f \notin Threads BY NamesDiffer DEF IInv
  <1>2. /\ spillLocks' = [b \in Buffers |-> spillLocks[b] \ {f}]
        /\ UNCHANGED <<type, device, memoryview, staged, exposed, rank, lockedBy, depth,
                       managed, call, need, context, held, callsLeft>>
    BY DEF ReleaseFrame, memVars, lockVars, userVars
  <1>3. spillLocks' \in [Buffers -> SUBSET (Threads \cup Frames)] BY <1>1, <1>2 DEF TypeOK
  <1>4. TypeOK' BY <1>1, <1>2, <1>3 DEF TypeOK
  <1>5. \A c \in Buffers : /\ spillLocks'[c] \subseteq spillLocks[c]
                           /\ spillLocks[c] \cap Threads \subseteq spillLocks'[c]
    BY <1>1, <1>2
  <1>6. ASSUME NEW c \in Buffers PROVE BufferInv(c)'
    <2>1. BufferInv(c) BY DEF IInv
    <2>2. Spillable(c) => Spillable(c)'
      <3>1. spillLocks[c] = {} => spillLocks'[c] = {} BY <1>5
      <3> QED BY <1>2, <3>1 DEF Spillable
    <2>3. \A u \in Threads : u \in spillLocks[c] => u \in spillLocks'[c] BY <1>5
    <2> QED BY <1>2, <2>1, <2>2, <2>3 DEF BufferInv
  <1> QED BY <1>2, <1>4, <1>5, <1>6, UserStep

LEMMA DropInv ==
  ASSUME IInv, NEW b \in Buffers, Drop(b) PROVE IInv'
  <1>1. TypeOK /\ Outside \notin Threads BY NamesDiffer DEF IInv
  <1>2. /\ type' = [type EXCEPT ![b] = "absent"]
        /\ device' = [device EXCEPT ![b] = None]
        /\ memoryview' = [memoryview EXCEPT ![b] = None]
        /\ exposed' = [exposed EXCEPT ![b] = FALSE]
        /\ spillLocks' = [spillLocks EXCEPT ![b] = {}]
        /\ managed' = managed \ {b}
        /\ held' = [held EXCEPT ![Outside] = @ \ {b}]
        /\ UNCHANGED <<staged, rank, lockedBy, depth, call, need, context, callsLeft>>
    BY DEF Drop, lockVars
  <1>3. ~Referenced(b) BY DEF Drop
  <1>4. TypeOK'
    <2>1. exposed' \in [Buffers -> BOOLEAN]
      <3>1. exposed \in [Buffers -> BOOLEAN] /\ FALSE \in BOOLEAN BY <1>1 DEF TypeOK
      <3> QED BY <1>2, <3>1, Zenon
    <2>2. held' \in [Threads \cup {Outside} -> SUBSET Buffers] BY <1>1, <1>2 DEF TypeOK
    <2>3. /\ type' \in [Buffers -> {"absent", "gpu", "cpu"}]
          /\ device' \in [Buffers -> Bytes] /\ memoryview' \in [Buffers -> Bytes]
          /\ spillLocks' \in [Buffers -> SUBSET (Threads \cup Frames)]
          /\ managed' \subseteq Buffers
      BY <1>1, <1>2 DEF TypeOK, Bytes
    <2> QED BY <1>1, <1>2, <2>1, <2>2, <2>3 DEF TypeOK
  <1>5. ASSUME NEW c \in Buffers PROVE BufferInv(c)'
    <2>1. BufferInv(c) BY DEF IInv
    <2>2. CASE c = b
      <3>1. type'[b] = "absent" /\ ~exposed'[b] /\ spillLocks'[b] = {}
        BY <1>1, <1>2 DEF TypeOK
      <3>2. b \notin held'[Outside] BY <1>1, <1>2 DEF TypeOK
      <3>3. \A u \in Threads : b \notin held'[u]
        BY <1>1, <1>2, <1>3 DEF TypeOK, Referenced
      <3> QED BY <2>2, <3>1, <3>2, <3>3 DEF BufferInv, Spillable
    <2>3. CASE c # b
      <3>1. /\ type'[c] = type[c] /\ device'[c] = device[c]
            /\ exposed'[c] = exposed[c] /\ spillLocks'[c] = spillLocks[c]
        BY <1>1, <1>2, <2>3 DEF TypeOK
      <3>2. \A a \in Threads \cup {Outside} : c \in held'[a] => c \in held[a]
        BY <1>1, <1>2 DEF TypeOK
      <3> QED BY <2>1, <3>1, <3>2 DEF BufferInv, Spillable
    <2> QED BY <2>2, <2>3
  <1>6. \A c \in Buffers :
           /\ type[c] = "absent" => type'[c] = "absent"
           /\ (\E u \in Threads : c = call[u].arg \/ c = call[u].victim)
                => /\ type'[c] = type[c] /\ exposed'[c] = exposed[c]
                   /\ spillLocks'[c] \subseteq spillLocks[c]
                   /\ spillLocks[c] \cap Threads \subseteq spillLocks'[c]
                   /\ device[c] # None => device'[c] # None
    BY <1>1, <1>2, <1>3 DEF TypeOK, Referenced
  <1> QED BY <1>2, <1>4, <1>5, <1>6, UserStep

(* The invariant. *)

LEMMA InitInv == ASSUME Init PROVE IInv
  <1>1. PICK content \in [Initial -> Values], resident \in SUBSET Initial :
          /\ device = [b \in Buffers |-> IF b \in resident THEN content[b] ELSE None]
          /\ memoryview = [b \in Buffers |->
                             IF b \in Initial \ resident THEN content[b] ELSE None]
          /\ type = [b \in Buffers |-> IF b \in resident THEN "gpu"
                                       ELSE IF b \in Initial THEN "cpu" ELSE "absent"]
    BY DEF Init
  <1>2. /\ staged = [b \in Buffers |-> None]
        /\ exposed = [b \in Buffers |-> FALSE]
        /\ spillLocks = [b \in Buffers |-> {}]
        /\ lockedBy = [b \in Buffers |-> None]
        /\ depth = [b \in Buffers |-> 0]
        /\ call = [t \in Threads |-> IdleCall]
        /\ context = [t \in Threads |-> 0]
        /\ held = [a \in Threads \cup {Outside} |-> {}]
        /\ callsLeft \in Nat
    BY BoundsAreNat DEF Init
  <1>3. TypeOK
    <2>1. exposed \in [Buffers -> BOOLEAN] BY <1>2
    <2>2. rank \in [Buffers -> Ranks] /\ managed \subseteq Buffers
      BY InitialAreBuffers DEF Init
    <2>3. call \in [Threads -> CallType] BY <1>2, IdleCallType
    <2>4. /\ type \in [Buffers -> {"absent", "gpu", "cpu"}]
          /\ device \in [Buffers -> Bytes] /\ memoryview \in [Buffers -> Bytes]
          /\ staged \in [Buffers -> Bytes]
      BY <1>1, <1>2 DEF Bytes
    <2>5. /\ spillLocks \in [Buffers -> SUBSET (Threads \cup Frames)]
          /\ lockedBy \in [Buffers -> Threads \cup {None}]
          /\ depth \in [Buffers -> Nat]
          /\ context \in [Threads -> Nat]
          /\ held \in [Threads \cup {Outside} -> SUBSET Buffers]
      BY <1>2
    <2> QED BY <1>2, <2>1, <2>2, <2>3, <2>4, <2>5 DEF TypeOK
  <1>4. ASSUME NEW b \in Buffers PROVE LockInv(b) /\ BufferInv(b)
    <2>1. LockInv(b) BY <1>2, BuffersAreNotNone DEF LockInv
    <2>2. type[b] = "gpu" => device[b] # None
      <3>1. \A c \in resident : content[c] # None BY NamesDiffer
      <3> QED BY <1>1, <3>1
    <2> QED BY <1>2, <2>1, <2>2 DEF BufferInv, Spillable
  <1>5. ASSUME NEW t \in Threads
        PROVE ArgInv(t) /\ VictimInv(t) /\ DstInv(t) /\ PlaceInv(t)
    <2>1. call[t] = IdleCall BY <1>2
    <2>2. ~UnderLock(t) /\ ~Unspilling(t) BY <2>1 DEF UnderLock, Unspilling, At, IdleCall
    <2> QED BY <2>1, <2>2 DEF ArgInv, VictimInv, DstInv, PlaceInv, At, IdleCall
  <1> QED BY <1>3, <1>4, <1>5 DEF IInv

LEMMA StepInv ==
  ASSUME IInv, NEW t \in Threads, Step(t) PROVE IInv'
  <1>1. CASE \E b \in Buffers : ScanSkip(t, b) \/ Evict(t, b)
    BY <1>1, ScanSkipInv, EvictInv
  <1>2. CASE \E v \in Values : NewBlock(t, v)
    BY <1>2, NewBlockInv
  <1>3. CASE \/ MeasureLimit(t) \/ Snapshot(t) \/ EvictEnd(t) \/ Resume(t) \/ ScanAgain(t)
             \/ GiveUp(t)
    BY <1>3, MeasureLimitInv, SnapshotInv, EvictEndInv, ResumeInv, ScanAgainInv, GiveUpInv
  <1>4. CASE \/ Acquire(t) \/ OnDevice(t) \/ PopMemoryview(t) \/ Raises(t) \/ Alloc(t)
             \/ AllocFails(t) \/ Settle(t)
    BY <1>4, AcquireInv, OnDeviceInv, PopMemoryviewInv, RaisesInv, AllocInv, AllocFailsInv,
       SettleInv
  <1>5. CASE \/ MarkExposed(t) \/ SpillLock(t) \/ UnspillEnd(t) \/ ReturnPtr(t)
             \/ SpillBegin(t) \/ SpillEnd(t)
    BY <1>5, MarkExposedInv, SpillLockInv, UnspillEndInv, ReturnPtrInv, SpillBeginInv,
       SpillEndInv
  <1>6. CASE \/ OnHost(t) \/ ReturnHost(t) \/ ViewPinned(t) \/ Serialize(t)
             \/ Register(t) \/ LeaveCopy(t)
    BY <1>6, OnHostInv, ReturnHostInv, ViewPinnedInv, SerializeInv, RegisterInv, LeaveCopyInv
  <1> QED BY <1>1, <1>2, <1>3, <1>4, <1>5, <1>6 DEF Step

LEMMA BeginInv ==
  ASSUME IInv, NEW t \in Threads, Begin(t) PROVE IInv'
  <1>1. CASE EnterContext(t) \/ ExitContext(t) \/ StartToLimit(t)
    BY <1>1, EnterContextInv, ExitContextInv, StartToLimitInv
  <1>2. CASE \E b \in Buffers : StartAccess(t, b)
    BY <1>2, StartAccessInv
  <1>3. CASE \E b \in Buffers, name \in Calls : StartLocked(t, b, name) \/ StartCreate(t, b, name)
    BY <1>3, StartLockedInv, StartCreateInv
  <1>4. CASE \E b \in Buffers, v \in Values : StartCreateHost(t, b, v)
    BY <1>4, StartCreateHostInv
  <1>5. CASE \E b \in Buffers, c \in Buffers : StartCopy(t, b, c)
    BY <1>5, StartCopyInv
  <1> QED BY <1>1, <1>2, <1>3, <1>4, <1>5 DEF Begin

LEMMA UsersInv ==
  ASSUME IInv, Users PROVE IInv'
  BY WriteInv, ReleaseFrameInv, DropInv DEF Users

LEMMA StutterInv ==
  ASSUME IInv, UNCHANGED vars PROVE IInv'
  <1>1. UNCHANGED <<type, device, memoryview, staged, exposed, spillLocks, rank, lockedBy,
                    depth, managed, call, need, context, held, callsLeft>>
    BY DEF vars
  <1>2. TypeOK' BY <1>1 DEF IInv, TypeOK
  <1>3. \A b \in Buffers : BufferInv(b)' BY <1>1 DEF IInv, BufferInv, Spillable
  <1> QED BY <1>1, <1>2, <1>3, UserStep

\* Whatever the threads do, buffers move only under their lock, and what is
\* pinned or exposed is on the device: the inductive invariant of SpillManager.
THEOREM InvariantHolds == Spec => []IInv
  <1>1. Init => IInv BY InitInv
  <1>2. IInv /\ [Next]_vars => IInv'
    BY StepInv, BeginInv, UsersInv, StutterInv DEF Next
  <1> QED BY <1>1, <1>2, PTL DEF Spec

\* Every variable keeps the type that the code gives it.
THEOREM TypesAreKept == Spec => []TypeOK
  <1>1. IInv => TypeOK BY DEF IInv
  <1> QED BY <1>1, InvariantHolds, PTL

\* No spill, eviction or unspill of another thread takes a device block away
\* from the holder of a pointer obtained with get_ptr, nor from a live frame.
THEOREM PointersStayValid == Spec => []PointersValid
  <1>1. ASSUME IInv PROVE PointersValid
    <2> SUFFICES ASSUME NEW b \in Buffers
                 PROVE /\ \A a \in Threads \cup {Outside} :
                            b \in held[a] => type[b] = "gpu" /\ device[b] # None
                       /\ spillLocks[b] \cap Frames # {} => type[b] = "gpu" /\ device[b] # None
      BY DEF PointersValid
    <2>1. BufferInv(b) BY <1>1 DEF IInv
    <2>2. ~Spillable(b) => type[b] = "gpu" /\ device[b] # None BY <2>1 DEF BufferInv
    <2>3. \A a \in Threads \cup {Outside} : b \in held[a] => ~Spillable(b)
      BY <2>1 DEF BufferInv, Spillable
    <2>4. spillLocks[b] \cap Frames # {} => ~Spillable(b) BY DEF Spillable
    <2> QED BY <2>2, <2>3, <2>4
  <1> QED BY <1>1, InvariantHolds, PTL

\* An exposed or spill-locked buffer is never on the host.
THEOREM UnspillableStaysOnDevice == Spec => []UnspillableIsOnDevice
  <1>1. IInv => UnspillableIsOnDevice BY DEF IInv, BufferInv, UnspillableIsOnDevice
  <1> QED BY <1>1, InvariantHolds, PTL

\* Two moves of one buffer never overlap, the re-entrant out-of-memory handler
\* included.
THEOREM MovesExclude == Spec => []MovesAreExclusive
  <1>1. ASSUME IInv PROVE MovesAreExclusive
    <2>1. ASSUME NEW b \in Buffers, NEW t \in Threads, b \in Moving(t)
          PROVE lockedBy[b] = t /\ depth[b] = 1
      <3>1. CASE At(t, "evict") /\ b = call[t].victim
        <4>1. VictimInv(t) /\ LockInv(b) BY <1>1 DEF IInv
        <4> QED BY <3>1, <4>1, BuffersAreNotNone DEF VictimInv, LockInv
      <3>2. CASE b = call[t].arg /\ UnderLock(t)
        BY <1>1, <3>2, Inside
      <3> QED BY <2>1, <3>1, <3>2 DEF Moving, UnderLock, Unspilling, At
    <2> QED BY <2>1 DEF MovesAreExclusive
  <1> QED BY <1>1, InvariantHolds, PTL

\* Every call gives its lock back, on the paths that raise as on the others.
THEOREM LocksReturn == Spec => []LocksAreReturned
  <1>1. ASSUME IInv PROVE LocksAreReturned
    <2> SUFFICES ASSUME NEW b \in Buffers
                 PROVE /\ lockedBy[b] # None => ~At(lockedBy[b], "idle")
                       /\ lockedBy[b] = None <=> depth[b] = 0
      BY DEF LocksAreReturned
    <2>1. LockInv(b) BY <1>1 DEF IInv
    <2>2. lockedBy[b] \in Threads \cup {None} BY <1>1 DEF IInv, TypeOK
    <2> QED BY <2>1, <2>2 DEF LockInv, UnderLock, Unspilling, At
  <1> QED BY <1>1, InvariantHolds, PTL

(* The exposed flag. *)

LEMMA StepKeepsExposed ==
  ASSUME IInv, NEW t \in Threads, Step(t), NEW b \in Buffers, exposed[b]
  PROVE exposed'[b]
  <1>1. CASE \E c \in Buffers : ScanSkip(t, c) \/ Evict(t, c)
    BY <1>1 DEF ScanSkip, Evict, pinVars
  <1>2. CASE \E v \in Values : NewBlock(t, v)
    <2> PICK v \in Values : NewBlock(t, v) BY <1>2
    <2> PICK c : c = call[t].dst OBVIOUS
    <2>1. type[c] = "absent"
      <3>1. DstInv(t) BY DEF IInv
      <3> QED BY <3>1 DEF DstInv, NewBlock, Made, At
    <2>2. b # c BY <2>1, AbsentIsFree DEF Spillable
    <2>3. exposed' = [exposed EXCEPT ![c] = call[t].op = "createExposed"] BY DEF NewBlock
    <2> QED BY <2>2, <2>3 DEF IInv, TypeOK
  <1>3. CASE \/ MeasureLimit(t) \/ Snapshot(t) \/ EvictEnd(t) \/ Resume(t) \/ ScanAgain(t)
             \/ GiveUp(t)
    BY <1>3 DEF MeasureLimit, Snapshot, EvictEnd, Resume, ScanAgain, GiveUp, pinVars
  <1>4. CASE \/ Acquire(t) \/ OnDevice(t) \/ PopMemoryview(t) \/ Raises(t) \/ Alloc(t)
             \/ AllocFails(t) \/ Settle(t)
    BY <1>4 DEF Acquire, OnDevice, PopMemoryview, Raises, Alloc, AllocFails, Settle, pinVars
  <1>5. CASE MarkExposed(t)
    <2> PICK c : exposed' = [exposed EXCEPT ![c] = TRUE] BY <1>5 DEF MarkExposed
    <2> QED BY DEF IInv, TypeOK
  <1>6. CASE \/ SpillLock(t) \/ UnspillEnd(t) \/ ReturnPtr(t) \/ SpillBegin(t) \/ SpillEnd(t)
    BY <1>6 DEF SpillLock, UnspillEnd, ReturnPtr, SpillBegin, SpillEnd, pinVars
  <1>7. CASE \/ OnHost(t) \/ ReturnHost(t) \/ ViewPinned(t) \/ Serialize(t)
             \/ Register(t) \/ LeaveCopy(t)
    BY <1>7 DEF OnHost, ReturnHost, ViewPinned, ReturnView, Serialize, Register, LeaveCopy,
                pinVars
  <1> QED BY <1>1, <1>2, <1>3, <1>4, <1>5, <1>6, <1>7 DEF Step

LEMMA BeginKeepsExposed ==
  ASSUME NEW t \in Threads, Begin(t) PROVE exposed' = exposed
  BY DEF Begin, EnterContext, ExitContext, StartToLimit, StartAccess, StartLocked, StartCreate,
         StartCreateHost, StartCopy, pinVars

\* "Once the exposure status becomes True, it will never change back", and the
\* exposed buffer stays in its device block, until its last reference is gone.
THEOREM ExposureStays == Spec => ExposureIsPermanent
  <1>1. ASSUME IInv, IInv', [Next]_vars, NEW b \in Buffers, exposed[b]
        PROVE \/ exposed'[b] /\ type'[b] = "gpu" /\ device'[b] # None
              \/ type'[b] = "absent"
    <2>1. CASE exposed'[b]
      <3>1. BufferInv(b)' BY <1>1 DEF IInv
      <3> QED BY <2>1, <3>1 DEF BufferInv, Spillable
    <2>2. CASE ~exposed'[b]
      <3>1. \A t \in Threads : ~Step(t) /\ ~Begin(t)
        BY <1>1, <2>2, StepKeepsExposed, BeginKeepsExposed
      <3>2. PICK c \in Buffers : Drop(c)
        <4>1. ~UNCHANGED vars BY <1>1, <2>2 DEF vars
        <4>2. Users BY <1>1, <3>1, <4>1 DEF Next
        <4>3. ~(\E a \in Threads \cup {Outside}, x \in Buffers, v \in Values : Write(a, x, v))
          BY <1>1, <2>2 DEF Write, pinVars
        <4>4. ~(\E f \in Frames : ReleaseFrame(f))
          BY <1>1, <2>2 DEF ReleaseFrame
        <4> QED BY <4>2, <4>3, <4>4 DEF Users
      <3>3. b = c BY <1>1, <2>2, <3>2 DEF Drop, IInv, TypeOK
      <3> QED BY <1>1, <3>2, <3>3 DEF Drop, IInv, TypeOK
    <2> QED BY <2>1, <2>2
  <1>2. IInv /\ IInv' /\ [Next]_vars =>
          [\A b \in Buffers :
             exposed[b] => \/ exposed'[b] /\ type'[b] = "gpu" /\ device'[b] # None
                           \/ type'[b] = "absent"]_vars
    BY <1>1
  <1> QED BY <1>2, InvariantHolds, PTL DEF Spec, ExposureIsPermanent

(* The sum of the sizes of a set of buffers, which is recursive: by induction *)
(* on the number of buffers, from the least number that is wrong.            *)

LEMMA ALeast ==
  ASSUME NEW S, S \subseteq Nat, S # {}
  PROVE  \E n \in S : \A m \in S : ~(m < n)
  <1>1. \E n \in S : \A m \in S : ~(<<m, n>> \in OpToRel(<, Nat))
    BY NatLessThanWellFounded, WFMin
  <1>2. PICK n \in S : \A m \in S : ~(<<m, n>> \in OpToRel(<, Nat))
    BY <1>1
  <1> QED BY <1>2 DEF OpToRel

First(s) == CHOOSE b \in s : TRUE
Adds(g, s) == g[s] = IF s = {} THEN 0 ELSE Size[First(s)] + g[s \ {First(s)}]
AddsUp(S, g) == \A s \in SUBSET S : Adds(g, s)
Sums(S, g) == g = [s \in SUBSET S |->
                     IF s = {} THEN 0 ELSE Size[First(s)] + g[s \ {First(s)}]]

LEMMA Unfold ==
  ASSUME NEW S PROVE TotalSize(S) = (CHOOSE g : Sums(S, g))[S]
  BY DEF TotalSize, MapThenSumSet, MapThenFoldSet, Sums, First


LEMMA FirstIsIn == ASSUME NEW s, s # {} PROVE First(s) \in s
  BY DEF First

\* A function that adds up the sizes of the subsets of S of at most n elements.
Small(S, n) == {s \in SUBSET S : Cardinality(s) <= n}
SumsUpTo(S, n, g) == g \in [Small(S, n) -> Nat] /\ \A s \in Small(S, n) : Adds(g, s)

LEMMA Smaller ==
  ASSUME NEW S \in SUBSET Buffers, NEW s \in SUBSET S, NEW b \in s
  PROVE /\ IsFiniteSet(s) /\ Cardinality(s) \in Nat /\ s \ {b} \in SUBSET S
        /\ Cardinality(s \ {b}) = Cardinality(s) - 1
        /\ Cardinality(s \ {b}) \in Nat /\ Size[b] \in Nat
  <1>1. IsFiniteSet(s) BY SizesAreNat, FS_Subset
  <1>2. IsFiniteSet(s \ {b}) /\ Cardinality(s \ {b}) = Cardinality(s) - 1
    BY <1>1, FS_RemoveElement
  <1>3. Cardinality(s) \in Nat /\ Cardinality(s \ {b}) \in Nat
    BY <1>1, <1>2, FS_CardinalityType
  <1> QED BY <1>1, <1>2, <1>3, SizesAreNat

\* Two functions that add up the sizes agree.
LEMMA SumsAgree ==
  ASSUME NEW S \in SUBSET Buffers, NEW f, NEW g,
         AddsUp(S, f), AddsUp(S, g)
  PROVE \A s \in SUBSET S : g[s] = f[s]
  <1> SUFFICES ASSUME NEW r \in SUBSET S, g[r] # f[r] PROVE FALSE OBVIOUS
  <1> DEFINE Bad == {m \in Nat : \E s \in SUBSET S : Cardinality(s) = m /\ g[s] # f[s]}
  <1>1. Cardinality(r) \in Bad
    BY SizesAreNat, FS_Subset, FS_CardinalityType
  <1>2. PICK m \in Bad : \A k \in Bad : ~(k < m)
    <2>1. Bad \subseteq Nat /\ Bad # {} BY <1>1
    <2> QED BY <2>1, ALeast
  <1>3. PICK s \in SUBSET S : Cardinality(s) = m /\ g[s] # f[s] BY <1>2
  <1>4. s # {} BY <1>3 DEF AddsUp, Adds
  <1> DEFINE rest == s \ {First(s)}
  <1>5. rest \in SUBSET S /\ Cardinality(rest) \in Nat /\ Cardinality(rest) < m
    <2>1. PICK b \in s : b = First(s) BY <1>4, FirstIsIn
    <2>2. /\ rest \in SUBSET S /\ Cardinality(rest) = Cardinality(s) - 1
          /\ Cardinality(rest) \in Nat
      <3>1. rest = s \ {b} BY <2>1
      <3> HIDE DEF rest
      <3> QED BY <3>1, Smaller
    <2> QED BY <1>2, <1>3, <2>2
  <1>6. g[rest] = f[rest]
    <2>1. Cardinality(rest) \notin Bad BY <1>2, <1>5
    <2> QED BY <1>5, <2>1
  <1> QED BY <1>3, <1>4, <1>6 DEF AddsUp, Adds

\* It does not matter which buffer is added first.
LEMMA AnyOrder ==
  ASSUME NEW S \in SUBSET Buffers, NEW g \in [SUBSET S -> Nat],
         AddsUp(S, g), NEW b \in S
  PROVE g[S] = Size[b] + g[S \ {b}]
  <1> DEFINE Wrong(s) == \E c \in s : g[s] # Size[c] + g[s \ {c}]
             Bad == {m \in Nat : \E s \in SUBSET S : Cardinality(s) = m /\ Wrong(s)}
  <1> SUFFICES ASSUME Wrong(S) PROVE FALSE OBVIOUS
  <1>1. Cardinality(S) \in Bad
    BY SizesAreNat, FS_Subset, FS_CardinalityType
  <1>2. PICK m \in Bad : \A k \in Bad : ~(k < m)
    <2>1. Bad \subseteq Nat /\ Bad # {} BY <1>1
    <2> HIDE DEF Bad
    <2> QED BY <2>1, ALeast
  <1>3. PICK s \in SUBSET S : Cardinality(s) = m /\ Wrong(s) BY <1>2
  <1>4. PICK c \in s : g[s] # Size[c] + g[s \ {c}] BY <1>3
  <1>5. PICK d : d = First(s) OBVIOUS
  <1>6. d \in s /\ g[s] = Size[d] + g[s \ {d}]
    BY <1>4, <1>5, FirstIsIn DEF AddsUp, Adds
  <1>7. c # d BY <1>4, <1>6
  <1>8. ASSUME NEW x \in s, NEW y \in s \ {x}
        PROVE g[s \ {x}] = Size[y] + g[(s \ {x}) \ {y}]
    <2>1. s \ {x} \in SUBSET S /\ Cardinality(s \ {x}) \in Nat /\ Cardinality(s \ {x}) < m
      BY <1>2, <1>3, Smaller
    <2>2. Cardinality(s \ {x}) \notin Bad
      <3> HIDE DEF Bad
      <3> QED BY <1>2, <2>1
    <2>3. ~Wrong(s \ {x}) BY <2>1, <2>2
    <2> QED BY <2>3
  <1>9. g[s \ {d}] = Size[c] + g[(s \ {d}) \ {c}] BY <1>4, <1>6, <1>7, <1>8
  <1>10. g[s \ {c}] = Size[d] + g[(s \ {c}) \ {d}] BY <1>4, <1>6, <1>7, <1>8
  <1>11. (s \ {d}) \ {c} = (s \ {c}) \ {d} /\ (s \ {c}) \ {d} \in SUBSET S OBVIOUS
  <1>12. Size[c] \in Nat /\ Size[d] \in Nat /\ g[(s \ {c}) \ {d}] \in Nat
    BY <1>4, <1>6, <1>11, SizesAreNat
  <1>13. g[(s \ {d}) \ {c}] = g[(s \ {c}) \ {d}] BY <1>11, Zenon
  <1>14. g[s] = Size[c] + g[s \ {c}] BY <1>6, <1>9, <1>10, <1>12, <1>13
  <1> QED BY <1>4, <1>14

LEMMA SumsExist ==
  ASSUME NEW S \in SUBSET Buffers, NEW n \in Nat PROVE \E g : SumsUpTo(S, n, g)
  <1> DEFINE Bad == {m \in Nat : ~(\E g : SumsUpTo(S, m, g))}
  <1> SUFFICES ASSUME n \in Bad PROVE FALSE OBVIOUS
  <1>1. PICK m \in Bad : \A k \in Bad : ~(k < m)
    <2>1. Bad \subseteq Nat /\ Bad # {} OBVIOUS
    <2> QED BY <2>1, ALeast
  <1>2. \A s \in SUBSET S : Cardinality(s) \in Nat /\ (Cardinality(s) = 0 <=> s = {})
    BY SizesAreNat, FS_Subset, FS_EmptySet, FS_CardinalityType
  <1>3. CASE m = 0
    <2> DEFINE g == [s \in Small(S, 0) |-> 0]
    <2>1. \A s \in Small(S, 0) : s = {} BY <1>2 DEF Small
    <2>2. SumsUpTo(S, 0, g) BY <2>1 DEF SumsUpTo, Adds
    <2> QED BY <1>1, <1>3, <2>2
  <1>4. CASE m # 0
    <2>1. m - 1 \in Nat /\ m - 1 < m BY <1>1, <1>4
    <2>2. PICK f : SumsUpTo(S, m - 1, f) BY <1>1, <2>1
    <2> DEFINE g == [s \in Small(S, m) |->
                       IF s = {} THEN 0 ELSE Size[First(s)] + f[s \ {First(s)}]]
    <2>3. ASSUME NEW s \in Small(S, m), s # {}
          PROVE /\ s \ {First(s)} \in Small(S, m - 1)
                /\ f[s \ {First(s)}] \in Nat /\ Size[First(s)] \in Nat
      <3>1. First(s) \in s BY <2>3, FirstIsIn
      <3>2. s \in SUBSET S BY DEF Small
      <3>3. s \ {First(s)} \in Small(S, m - 1)
        BY <1>1, <1>2, <2>1, <3>1, <3>2, Smaller DEF Small
      <3> QED BY <2>2, <3>1, <3>2, <3>3, Smaller DEF SumsUpTo
    <2>4. g \in [Small(S, m) -> Nat]
      <3>1. ASSUME NEW s \in Small(S, m), s # {}
            PROVE Size[First(s)] + f[s \ {First(s)}] \in Nat
        BY <2>3, <3>1
      <3> QED BY <3>1
    <2>5. ASSUME NEW s \in Small(S, m - 1) PROVE s \in Small(S, m) /\ g[s] = f[s]
      <3>1. s \in Small(S, m) BY <1>1, <1>2, <2>1 DEF Small
      <3> QED BY <2>2, <3>1 DEF SumsUpTo, Adds
    <2>6. \A s \in Small(S, m) : Adds(g, s)
      BY <2>3, <2>5 DEF Adds
    <2>7. SumsUpTo(S, m, g) BY <2>4, <2>6 DEF SumsUpTo
    <2> QED BY <1>1, <2>7
  <1> QED BY <1>3, <1>4

\* The sum of the sizes is what a function says that adds them up one by one.
LEMMA TotalSizeSums ==
  ASSUME NEW S \in SUBSET Buffers
  PROVE \E g \in [SUBSET S -> Nat] : TotalSize(S) = g[S] /\ AddsUp(S, g)
  <1>1. IsFiniteSet(S) /\ Cardinality(S) \in Nat
    BY SizesAreNat, FS_Subset, FS_CardinalityType
  <1>2. Small(S, Cardinality(S)) = SUBSET S BY <1>1, FS_Subset DEF Small
  <1>3. PICK f : SumsUpTo(S, Cardinality(S), f) BY <1>1, SumsExist
  <1>4. f \in [SUBSET S -> Nat] /\ AddsUp(S, f)
    BY <1>2, <1>3 DEF SumsUpTo, AddsUp
  <1>5. Sums(S, f) BY <1>4 DEF Sums, AddsUp, Adds
  <1>6. PICK g : g = (CHOOSE h : Sums(S, h)) OBVIOUS
  <1>7. Sums(S, g) BY <1>5, <1>6
  <1>8. TotalSize(S) = g[S] BY <1>6, Unfold
  <1>9. AddsUp(S, g) BY <1>7 DEF Sums, AddsUp, Adds
  <1>10. DOMAIN g = SUBSET S /\ g = [s \in SUBSET S |-> g[s]] BY <1>7 DEF Sums
  <1>11. \A s \in SUBSET S : g[s] = f[s]
    BY <1>4, <1>9, SumsAgree
  <1>12. g \in [SUBSET S -> Nat] BY <1>4, <1>10, <1>11
  <1> QED BY <1>8, <1>9, <1>12

\* The sum without one of the buffers.
LEMMA TotalSizeWithout ==
  ASSUME NEW S \in SUBSET Buffers, NEW b \in S
  PROVE TotalSize(S) = Size[b] + TotalSize(S \ {b})
  <1>1. PICK g \in [SUBSET S -> Nat] : TotalSize(S) = g[S] /\ AddsUp(S, g)
    BY TotalSizeSums
  <1> DEFINE T == S \ {b}
  <1>2. PICK h \in [SUBSET T -> Nat] : TotalSize(T) = h[T] /\ AddsUp(T, h)
    <2>1. T \in SUBSET Buffers OBVIOUS
    <2> QED BY <2>1, TotalSizeSums
  <1>3. g[T] = h[T]
    <2>1. T \in SUBSET Buffers /\ AddsUp(T, g) BY <1>1 DEF AddsUp
    <2> HIDE DEF T
    <2>2. \A s \in SUBSET T : g[s] = h[s] BY <1>2, <2>1, SumsAgree
    <2> QED BY <2>2
  <1>4. g[S] = Size[b] + g[T] BY <1>1, AnyOrder
  <1> QED BY <1>1, <1>2, <1>3, <1>4

LEMMA TotalSizeType ==
  ASSUME NEW S \in SUBSET Buffers PROVE TotalSize(S) \in Nat
  <1>1. PICK g \in [SUBSET S -> Nat] : TotalSize(S) = g[S] BY TotalSizeSums
  <1>2. S \in SUBSET S OBVIOUS
  <1> QED BY <1>1, <1>2

(* The order of evictions, for one thread and no frame that is dropped while *)
(* the manager scans.                                                        *)

LEMMA GotoElsewhere ==
  ASSUME IInv, NEW t \in Threads, NEW label \in Labels \ Scanning,
         Goto(t, label)
  PROVE call'[t].pc \notin Scanning
  <1>1. TypeOK BY DEF IInv
  <1>2. call'[t].pc = label BY <1>1, GotoFields
  <1> QED BY <1>2

LEMMA ReturnElsewhere ==
  ASSUME IInv, NEW t \in Threads, Return(t)
  PROVE call'[t].pc \notin Scanning
  <1>1. TypeOK BY DEF IInv
  <1>2. call'[t].pc \in {"leave", "idle"} BY <1>1, ReturnFields
  <1> QED BY <1>2 DEF Scanning

LEMMA FrameElsewhere ==
  ASSUME IInv, NEW t \in Threads, NEW frame, Frame(t, frame),
         frame.pc \notin Scanning
  PROVE call'[t].pc \notin Scanning
  BY DEF Frame, IInv, TypeOK

LEMMA ProceedElsewhere ==
  ASSUME IInv, NEW t \in Threads, Proceed(t)
  PROVE call'[t].pc \notin Scanning
  <1>1. call[t].back \in {"idle", "wait", "alloc", "new"} BY DEF IInv, TypeOK, CallType
  <1>2. CASE call[t].back = "idle"
    BY <1>2, ReturnElsewhere DEF Proceed
  <1>3. CASE call[t].back # "idle"
    BY <1>1, <1>3, GotoElsewhere DEF Proceed, Labels, Scanning
  <1> QED BY <1>2, <1>3

\* Only these steps lead to a scan or on in it.
LEMMA ScanningSteps ==
  ASSUME IInv, NEW t \in Threads, Step(t), call'[t].pc \in Scanning
  PROVE \/ MeasureLimit(t) /\ Goto(t, "snapshot")
        \/ Snapshot(t) \/ EvictEnd(t) \/ ScanAgain(t) \/ AllocFails(t)
        \/ \E b \in Buffers : ScanSkip(t, b) \/ Evict(t, b)
  <1>1. ~Resume(t) BY ProceedElsewhere DEF Resume
  <1>2. MeasureLimit(t) => Goto(t, "snapshot")
    BY ProceedElsewhere DEF MeasureLimit
  <1>3. ~Register(t) /\ ~LeaveCopy(t)
    <2>1. call[t] \in CallType BY DEF IInv, TypeOK
    <2>2. ~Register(t) BY <2>1, FrameElsewhere DEF Register, CallType, Scanning
    <2>3. ~LeaveCopy(t) BY FrameElsewhere DEF LeaveCopy, IdleCall, Scanning
    <2> QED BY <2>2, <2>3
  <1>4. ~(GiveUp(t) \/ Raises(t) \/ UnspillEnd(t) \/ Serialize(t))
    BY ReturnElsewhere DEF GiveUp, Raises, UnspillEnd, Serialize
  <1>5. ~(Acquire(t) \/ OnDevice(t) \/ PopMemoryview(t) \/ Alloc(t) \/ Settle(t))
    BY GotoElsewhere DEF Acquire, OnDevice, PopMemoryview, Alloc, Settle, Labels, Scanning
  <1>6. ~(MarkExposed(t) \/ SpillLock(t) \/ SpillBegin(t) \/ SpillEnd(t) \/ OnHost(t))
    BY GotoElsewhere DEF MarkExposed, SpillLock, SpillBegin, SpillEnd, OnHost, Labels, Scanning
  <1>7. ~ReturnPtr(t)
    BY GotoElsewhere, ReturnElsewhere DEF ReturnPtr, Labels, Scanning
  <1>8. ~(ReturnHost(t) \/ ViewPinned(t))
    BY GotoElsewhere, ReturnElsewhere DEF ReturnHost, ViewPinned, ReturnView, Labels, Scanning
  <1>9. ~(\E v \in Values : NewBlock(t, v))
    BY GotoElsewhere DEF NewBlock, Labels, Scanning
  <1> QED BY <1>1, <1>2, <1>3, <1>4, <1>5, <1>6, <1>7, <1>8, <1>9 DEF Step

\* A thread adds a buffer that has bytes, or none, and asks for a number of bytes.
LEMMA StepAdds ==
  ASSUME IInv, EvictionInv, NEW t \in Threads, Step(t)
  PROVE (\A b \in managed' : Size[b] > 0) /\ need' \in [Threads -> Int]
  <1>1. \A b \in managed : Size[b] > 0 BY DEF EvictionInv
  <1>2. need \in [Threads -> Int] BY DEF EvictionInv
  <1>3. CASE \E b \in Buffers : ScanSkip(t, b) \/ Evict(t, b)
    BY <1>1, <1>2, <1>3 DEF ScanSkip, Evict
  <1>4. CASE \E v \in Values : NewBlock(t, v)
    BY <1>1, <1>2, <1>4 DEF NewBlock
  <1>5. CASE \/ Snapshot(t) \/ EvictEnd(t) \/ Resume(t) \/ ScanAgain(t) \/ GiveUp(t)
    BY <1>1, <1>2, <1>5 DEF Snapshot, EvictEnd, Resume, ScanAgain, GiveUp
  <1>6. CASE \/ Acquire(t) \/ OnDevice(t) \/ PopMemoryview(t) \/ Raises(t) \/ Alloc(t) \/ Settle(t)
    BY <1>1, <1>2, <1>6 DEF Acquire, OnDevice, PopMemoryview, Raises, Alloc, Settle
  <1>7. CASE \/ MarkExposed(t) \/ SpillLock(t) \/ UnspillEnd(t) \/ ReturnPtr(t)
             \/ SpillBegin(t) \/ SpillEnd(t)
    BY <1>1, <1>2, <1>7 DEF MarkExposed, SpillLock, UnspillEnd, ReturnPtr, SpillBegin, SpillEnd
  <1>8. CASE OnHost(t) \/ ReturnHost(t) \/ ViewPinned(t) \/ Serialize(t) \/ LeaveCopy(t)
    BY <1>1, <1>2, <1>8 DEF OnHost, ReturnHost, ViewPinned, ReturnView, Serialize, LeaveCopy
  <1>9. CASE Register(t)
    BY <1>1, <1>2, <1>9 DEF Register
  <1>10. CASE MeasureLimit(t)
    <2>1. managed' = managed BY <1>10 DEF MeasureLimit
    <2>2. CASE DeviceLimit = None BY <1>1, <1>2, <1>10, <2>1, <2>2 DEF MeasureLimit
    <2>3. CASE DeviceLimit # None
      <3> DEFINE bytes == TotalSize({b \in managed : ~Spilled(b)}) - DeviceLimit
      <3>1. need' = [need EXCEPT ![t] = bytes] BY <1>10, <2>3 DEF MeasureLimit
      <3>2. bytes \in Int
        <4>1. {b \in managed : ~Spilled(b)} \in SUBSET Buffers BY DEF IInv, TypeOK
        <4>2. TotalSize({b \in managed : ~Spilled(b)}) \in Nat BY <4>1, TotalSizeType
        <4> QED BY <2>3, <4>2, LimitIsIntOrNone
      <3> HIDE DEF bytes
      <3> QED BY <1>1, <1>2, <2>1, <3>1, <3>2
    <2> QED BY <2>2, <2>3
  <1>11. CASE AllocFails(t)
    <2>1. managed' = managed BY <1>11 DEF AllocFails
    <2>2. Wanted(t) \in Buffers
      <3>1. ArgInv(t) /\ DstInv(t) /\ TypeOK BY DEF IInv
      <3>2. call[t].pc \in {"alloc", "new"} BY <1>11 DEF AllocFails
      <3>3. At(t, "alloc") => call[t].arg # None
        BY <3>1 DEF ArgInv, UnderLock, Unspilling, At
      <3>4. ~At(t, "alloc") => call[t].dst # None BY <3>1, <3>2 DEF DstInv, At
      <3> QED BY <3>1, <3>3, <3>4 DEF Wanted, TypeOK, CallType
    <2>3. Size[Wanted(t)] \in Int BY <2>2, SizesAreNat
    <2> QED BY <1>1, <1>2, <1>11, <2>1, <2>3 DEF AllocFails
  <1> QED BY <1>3, <1>4, <1>5, <1>6, <1>7, <1>8, <1>9, <1>10, <1>11 DEF Step

LEMMA UnspilledType ==
  ASSUME IInv PROVE Unspilled \in SUBSET Buffers /\ TotalSize(Unspilled) \in Nat
  <1>1. Unspilled \in SUBSET Buffers BY DEF IInv, TypeOK, Unspilled
  <1> QED BY <1>1, TotalSizeType

\* The limit is measured: everything over it is asked for.
LEMMA MeasureScans ==
  ASSUME IInv, EvictionInv, NEW t \in Threads, MeasureLimit(t), Goto(t, "snapshot")
  PROVE ScanInv(t)' /\ LimitInv(t)'
  <1>1. TypeOK /\ need \in [Threads -> Int] BY DEF IInv, EvictionInv
  <1>2. call'[t].pc = "snapshot" BY <1>1, GotoFields DEF Labels
  <1>3. ~Proceed(t) \/ DeviceLimit # None
    <2>1. ASSUME Proceed(t) PROVE FALSE
      <3>1. call'[t].pc \notin Scanning BY <2>1, ProceedElsewhere
      <3> QED BY <1>2, <3>1 DEF Scanning
    <2> QED BY <2>1
  <1>4. /\ DeviceLimit # None
        /\ need' = [need EXCEPT ![t] = TotalSize(Unspilled) - DeviceLimit]
    BY <1>3 DEF MeasureLimit, Unspilled
  <1>5. need'[t] = TotalSize(Unspilled) - DeviceLimit BY <1>1, <1>4
  <1>6. Unspilled' = Unspilled
    BY DEF MeasureLimit, memVars, Unspilled, Spilled
  <1>7. TotalSize(Unspilled)' = TotalSize(Unspilled) BY <1>6
  <1>8. TotalSize(Unspilled) \in Nat BY UnspilledType
  <1>9. DeviceLimit \in Int BY <1>4, LimitIsIntOrNone
  <1>10. At(t, "snapshot")' BY <1>2 DEF At
  <1>11. LimitInv(t)'
    BY <1>4, <1>5, <1>7, <1>8, <1>9, <1>10 DEF LimitInv
  <1> QED BY <1>2, <1>11 DEF ScanInv

\* Which of the conditions a step that spills nothing keeps.
LEMMA NothingSpilled ==
  ASSUME NEW t \in Threads, LimitInv(t), UNCHANGED <<managed, type, need>>,
         call[t].pc \in Scanning, call'[t].back = call[t].back,
         (IF At(t, "snapshot")' THEN 0 ELSE call'[t].got)
           = (IF At(t, "snapshot") THEN 0 ELSE call[t].got)
  PROVE LimitInv(t)'
  <1>1. Unspilled' = Unspilled BY DEF Unspilled, Spilled
  <1>2. TotalSize(Unspilled)' = TotalSize(Unspilled) BY <1>1
  <1>3. OutOfMemory(t)' <=> OutOfMemory(t) BY DEF OutOfMemory
  <1> QED BY <1>2, <1>3 DEF LimitInv

LEMMA SnapshotScans ==
  ASSUME IInv, EvictionInv, NEW t \in Threads, Snapshot(t)
  PROVE ScanInv(t)' /\ LimitInv(t)'
  <1> DEFINE all == [b \in managed |-> rank[b]]
             r == [call[t] EXCEPT !.pc = "scan", !.got = 0, !.todo = all]
  <1>1. TypeOK /\ LimitInv(t) BY DEF IInv, EvictionInv
  <1>2. call[t] \in CallType /\ call[t].pc = "snapshot" BY <1>1 DEF TypeOK, Snapshot, At
  <1>3. r \in CallType BY <1>1, <1>2, FullSnapshot DEF CallType, Labels
  <1>4. call'[t] = r BY <1>1, <1>3, FrameFields DEF Snapshot
  <1>5. /\ call'[t].pc = "scan" /\ call'[t].todo = all /\ call'[t].got = 0
        /\ call'[t].back = call[t].back
    BY <1>2, <1>4 DEF CallType
  <1>6. UNCHANGED <<managed, rank, type, need>> BY DEF Snapshot, memVars
  <1>7. ~At(t, "evict")' /\ ~At(t, "snapshot")' /\ At(t, "snapshot") BY <1>2, <1>5 DEF At
  <1>8. LimitInv(t)' BY <1>1, <1>2, <1>5, <1>6, <1>7, NothingSpilled DEF Scanning
  <1> QED BY <1>5, <1>6, <1>7, <1>8 DEF ScanInv

\* With one thread no lock of another hides a buffer.
LEMMA SkipScans ==
  ASSUME Alone, IInv, EvictionInv, NEW t \in Threads, NEW b \in Buffers, ScanSkip(t, b)
  PROVE ScanInv(t)' /\ LimitInv(t)'
  <1> DEFINE r == [call[t] EXCEPT !.todo = Without(t, b)]
  <1>1. TypeOK /\ ScanInv(t) /\ LimitInv(t) BY DEF IInv, EvictionInv
  <1>2. call[t] \in CallType /\ call[t].pc = "scan" BY <1>1 DEF TypeOK, ScanSkip, At
  <1>3. r \in CallType BY <1>1, <1>2, RestIsSnapshot DEF CallType
  <1>4. call'[t] = r BY <1>1, <1>3, FrameFields DEF ScanSkip
  <1>5. /\ call'[t].pc = "scan" /\ call'[t].todo = Without(t, b)
        /\ call'[t].got = call[t].got /\ call'[t].back = call[t].back
    BY <1>2, <1>4 DEF CallType
  <1>6. UNCHANGED <<managed, rank, type, exposed, spillLocks, need>>
    BY DEF ScanSkip, memVars, pinVars
  <1>7. Spilled(b) \/ ~Spillable(b)
    <2>1. CanLock(t, b) BY <1>1 DEF Alone, CanLock, TypeOK
    <2> QED BY <2>1 DEF ScanSkip, Evictable
  <1>8. /\ ~At(t, "evict")' /\ ~At(t, "evict")
        /\ ~At(t, "snapshot")' /\ ~At(t, "snapshot")
    BY <1>2, <1>5 DEF At
  <1>9. b \in DOMAIN call[t].todo BY DEF ScanSkip, Oldest
  <1>10. LimitInv(t)' BY <1>1, <1>2, <1>5, <1>6, <1>8, NothingSpilled DEF Scanning
  <1>11. ScanInv(t)'
    BY <1>1, <1>2, <1>5, <1>6, <1>7, <1>8, <1>9 DEF ScanInv, Without, Spilled, Spillable
  <1> QED BY <1>10, <1>11

LEMMA EvictScans ==
  ASSUME IInv, EvictionInv, NEW t \in Threads, NEW b \in Buffers, Evict(t, b)
  PROVE ScanInv(t)' /\ LimitInv(t)'
  <1> DEFINE r == [call[t] EXCEPT !.pc = "evict", !.victim = b, !.todo = Without(t, b)]
  <1>1. TypeOK /\ ScanInv(t) /\ LimitInv(t) BY DEF IInv, EvictionInv
  <1>2. call[t] \in CallType /\ call[t].pc = "scan" BY <1>1 DEF TypeOK, Evict, At
  <1>3. r \in CallType BY <1>1, <1>2, RestIsSnapshot DEF CallType, Labels
  <1>4. call'[t] = r BY <1>1, <1>3, FrameFields DEF Evict
  <1>5. /\ call'[t].pc = "evict" /\ call'[t].todo = Without(t, b)
        /\ call'[t].got = call[t].got /\ call'[t].victim = b
        /\ call'[t].back = call[t].back
    BY <1>2, <1>4 DEF CallType
  <1>6. UNCHANGED <<managed, rank, type, exposed, spillLocks, need>>
    BY DEF Evict, pinVars
  <1>7. /\ At(t, "evict")' /\ ~At(t, "evict")
        /\ ~At(t, "snapshot")' /\ ~At(t, "snapshot")
    BY <1>2, <1>5 DEF At
  <1>8. b \in DOMAIN call[t].todo BY DEF Evict, Oldest
  <1>9. LimitInv(t)' BY <1>1, <1>2, <1>5, <1>6, <1>7, NothingSpilled DEF Scanning
  <1>10. ScanInv(t)'
    BY <1>1, <1>2, <1>5, <1>6, <1>7, <1>8 DEF ScanInv, Without, Spilled, Spillable
  <1> QED BY <1>9, <1>10

\* The victim's bytes move from the unspilled ones to those that were spilled.
LEMMA EvictEndScans ==
  ASSUME IInv, EvictionInv, NEW t \in Threads, EvictEnd(t)
  PROVE ScanInv(t)' /\ LimitInv(t)'
  <1> DEFINE b == call[t].victim
             rest == IF call[t].got + Size[b] >= need[t] THEN [c \in {} |-> 0]
                     ELSE call[t].todo
             r == [call[t] EXCEPT !.pc = "scan", !.got = @ + Size[b],
                                  !.victim = None, !.todo = rest]
  <1>1. /\ TypeOK /\ VictimInv(t) /\ ScanInv(t) /\ LimitInv(t)
        /\ need \in [Threads -> Int] /\ \A c \in managed : Size[c] > 0
    BY DEF IInv, EvictionInv
  <1>2. call[t] \in CallType /\ call[t].pc = "evict" BY <1>1 DEF TypeOK, EvictEnd, At
  <1>3. b \in Buffers /\ b \in managed /\ type[b] = "gpu"
    BY <1>1, <1>2 DEF VictimInv, At, CallType, ScanInv
  <1>4. call[t].got \in Nat /\ Size[b] \in Nat /\ Size[b] > 0 /\ need[t] \in Int
    BY <1>1, <1>2, <1>3, SizesAreNat DEF CallType
  <1>5. rest \in Snapshots BY <1>2, EmptySnapshot DEF CallType
  <1>6. r \in CallType
    <2>1. call[t].got + Size[b] \in Nat BY <1>4
    <2> HIDE DEF rest, b
    <2> QED BY <1>2, <1>5, <2>1 DEF CallType, Labels
  <1>7. call'[t] = r BY <1>1, <1>6, FrameFields DEF EvictEnd
  <1>8. /\ call'[t].pc = "scan" /\ call'[t].todo = rest
        /\ call'[t].got = call[t].got + Size[b] /\ call'[t].back = call[t].back
    BY <1>2, <1>7 DEF CallType
  <1>9. \/ rest = call[t].todo
        \/ DOMAIN rest = {} /\ ~(call[t].got + Size[b] < need[t])
    BY <1>4
  <1>10. UNCHANGED <<managed, rank, exposed, spillLocks, need>>
         /\ type' = [type EXCEPT ![b] = "cpu"]
    BY DEF EvictEnd, ToHost, pinVars
  <1>11. \A c \in managed : Spilled(c) \/ c = b => Spilled(c)'
    BY <1>1, <1>10 DEF Spilled, TypeOK
  <1>12. \A c \in managed : Spillable(c)' <=> Spillable(c) BY <1>10 DEF Spillable
  <1>13. ~At(t, "evict")' /\ At(t, "evict") /\ ~At(t, "snapshot")' /\ ~At(t, "snapshot")
    BY <1>2, <1>8 DEF At
  <1> HIDE DEF rest, b
  <1>14. \A c \in DOMAIN rest : c \in managed' /\ rest[c] = rank'[c]
    <2>1. \A c \in DOMAIN call[t].todo : c \in managed /\ call[t].todo[c] = rank[c]
      BY <1>1, <1>2, Zenon DEF ScanInv
    <2> QED BY <1>9, <1>10, <2>1
  <1>15. ASSUME DOMAIN rest # {} \/ call'[t].got = 0 \/ call'[t].got < need'[t],
                NEW c \in managed' \ DOMAIN rest
         PROVE Spilled(c)' \/ ~Spillable(c)'
    <2>1. rest = call[t].todo /\ (DOMAIN rest # {} \/ call[t].got + Size[b] < need[t])
      BY <1>4, <1>8, <1>9, <1>10, <1>15
    <2>2. DOMAIN call[t].todo # {} \/ call[t].got = 0 \/ call[t].got < need[t]
      BY <1>4, <2>1
    <2>3. c \in managed \ DOMAIN call[t].todo BY <1>10, <1>15, <2>1
    <2>4. Spilled(c) \/ ~Spillable(c) \/ c = b
      <3>1. call[t].pc \in {"scan", "evict"} BY <1>2
      <3> QED BY <1>1, <2>2, <2>3, <3>1, Zenon DEF ScanInv, b
    <2>5. c \in managed BY <2>3
    <2> QED BY <1>11, <1>12, <2>4, <2>5, Zenon
  <1>16. ScanInv(t)'
    BY <1>8, <1>13, <1>14, <1>15 DEF ScanInv
  <1>17. LimitInv(t)'
    <2>1. Unspilled' = Unspilled \ {b} /\ b \in Unspilled
      BY <1>1, <1>3, <1>10 DEF Unspilled, Spilled, TypeOK
    <2>2. Unspilled \in SUBSET Buffers BY UnspilledType
    <2>3. TotalSize(Unspilled) = Size[b] + TotalSize(Unspilled \ {b})
      BY <2>1, <2>2, TotalSizeWithout
    <2>4. TotalSize(Unspilled)' = TotalSize(Unspilled \ {b}) BY <2>1
    <2>5. TotalSize(Unspilled \ {b}) \in Nat
      <3>1. Unspilled \ {b} \in SUBSET Buffers BY <2>2
      <3> QED BY <3>1, TotalSizeType
    <2>6. OutOfMemory(t)' <=> OutOfMemory(t) BY <1>8 DEF OutOfMemory
    <2>7. ASSUME ~OutOfMemory(t)
          PROVE DeviceLimit # None /\ TotalSize(Unspilled) + call[t].got <= need[t] + DeviceLimit
      BY <1>1, <1>2, <1>13, <2>7 DEF LimitInv, Scanning
    <2>8. ASSUME ~OutOfMemory(t)
          PROVE TotalSize(Unspilled)' + call'[t].got <= need'[t] + DeviceLimit
      <3>1. DeviceLimit \in Int BY <2>7, <2>8, LimitIsIntOrNone
      <3> QED BY <1>4, <1>8, <1>10, <2>3, <2>4, <2>5, <2>7, <2>8, <3>1
    <2> QED BY <1>13, <2>6, <2>7, <2>8 DEF LimitInv
  <1> QED BY <1>16, <1>17

\* The handler scans for the allocation, not for the limit.
LEMMA HandlerScans ==
  ASSUME IInv, EvictionInv, NEW t \in Threads, ScanAgain(t) \/ AllocFails(t)
  PROVE ScanInv(t)' /\ LimitInv(t)'
  <1>1. TypeOK BY DEF IInv
  <1>2. call[t] \in CallType BY <1>1 DEF TypeOK
  <1>3. call'[t].pc = "snapshot" /\ call'[t].back \in {"alloc", "new"}
    <2>1. CASE ScanAgain(t)
      BY <1>1, <1>2, <2>1 DEF ScanAgain, OutOfMemory, Frame, TypeOK, CallType
    <2>2. CASE AllocFails(t)
      BY <1>1, <1>2, <2>2 DEF AllocFails, Frame, TypeOK, CallType
    <2> QED BY <2>1, <2>2
  <1> QED BY <1>3 DEF ScanInv, LimitInv, OutOfMemory

\* A thread that begins a call or a context is not in a scan.
LEMMA BeginScans ==
  ASSUME IInv, EvictionInv, NEW t \in Threads, Begin(t)
  PROVE UNCHANGED <<managed, need>> /\ ScanInv(t)' /\ LimitInv(t)'
  <1>1. At(t, "idle") /\ UNCHANGED <<managed, need>>
    BY Zenon
       DEF Begin, EnterContext, ExitContext, StartToLimit, StartAccess, StartLocked,
           StartCreate, StartCreateHost, StartCopy, Start
  <1>2. call'[t].pc \notin Scanning
    <2>1. CASE EnterContext(t) \/ ExitContext(t)
      BY <1>1, <2>1 DEF EnterContext, ExitContext, At, Scanning
    <2>2. CASE StartToLimit(t)
      BY <2>2, FrameElsewhere DEF StartToLimit, Start, IdleCall, Scanning
    <2>3. CASE \E b \in Buffers : StartAccess(t, b)
      BY <2>3, FrameElsewhere DEF StartAccess, Start, IdleCall, Scanning
    <2>4. CASE \E b \in Buffers, name \in Calls : StartLocked(t, b, name) \/ StartCreate(t, b, name)
      BY <2>4, FrameElsewhere DEF StartLocked, StartCreate, Start, IdleCall, Scanning
    <2>5. CASE \E b \in Buffers, v \in Values : StartCreateHost(t, b, v)
      BY <2>5, FrameElsewhere DEF StartCreateHost, Start, IdleCall, Scanning
    <2>6. CASE \E b \in Buffers, c \in Buffers : StartCopy(t, b, c)
      BY <2>6, FrameElsewhere DEF StartCopy, Start, IdleCall, Scanning
    <2> QED BY <2>1, <2>2, <2>3, <2>4, <2>5, <2>6 DEF Begin
  <1>3. call'[t].pc \notin {"scan", "evict"} BY <1>2 DEF Scanning
  <1> QED BY <1>1, <1>2, <1>3, Zenon DEF ScanInv, LimitInv

\* A write moves nothing, and a buffer that is dropped is no longer managed.
LEMMA UsersScan ==
  ASSUME Alone, IInv, EvictionInv, Users PROVE EvictionInv'
  <1>1. UNCHANGED <<call, rank, need>>
    BY DEF Users, Write, ReleaseFrame, Drop
  <1>2. ASSUME UNCHANGED <<managed, type, exposed, spillLocks>> PROVE EvictionInv'
    <2>1. Unspilled' = Unspilled BY <1>2 DEF Unspilled, Spilled
    <2>2. TotalSize(Unspilled)' = TotalSize(Unspilled) BY <2>1
    <2> QED BY <1>1, <1>2, <2>2
            DEF EvictionInv, ScanInv, LimitInv, OutOfMemory, At, Spilled, Spillable
  <1>3. ASSUME NEW c \in Buffers, Drop(c) PROVE EvictionInv'
    <2>1. /\ managed' = managed \ {c} /\ type' = [type EXCEPT ![c] = "absent"]
          /\ exposed' = [exposed EXCEPT ![c] = FALSE]
          /\ spillLocks' = [spillLocks EXCEPT ![c] = {}]
          /\ ~Referenced(c)
      BY <1>3 DEF Drop
    <2>2. TypeOK BY DEF IInv
    <2>3. \A b \in managed' : b \in managed /\ (Spilled(b)' <=> Spilled(b))
                              /\ (Spillable(b)' <=> Spillable(b))
      BY <2>1, <2>2 DEF Spilled, Spillable, TypeOK
    <2>4. ASSUME NEW t \in Threads PROVE ScanInv(t)'
      <3>1. ScanInv(t) BY DEF EvictionInv
      <3>2. At(t, "evict")' <=> At(t, "evict") BY <1>1 DEF At
      <3>3. c \notin DOMAIN call[t].todo /\ c # call[t].victim BY <2>1 DEF Referenced
      <3>4. managed' \subseteq managed /\ \A b \in managed : b # c => b \in managed'
        BY <2>1
      <3> QED BY <1>1, <2>3, <3>1, <3>2, <3>3, <3>4 DEF ScanInv
    <2>5. TotalSize(Unspilled)' <= TotalSize(Unspilled) /\ TotalSize(Unspilled)' \in Nat
      <3>1. Unspilled' = Unspilled \ {c} BY <2>1, <2>2 DEF Unspilled, Spilled, TypeOK
      <3>2. TotalSize(Unspilled)' = TotalSize(Unspilled \ {c}) BY <3>1
      <3>3. Unspilled \in SUBSET Buffers /\ TotalSize(Unspilled) \in Nat BY UnspilledType
      <3>4. Unspilled \ {c} \in SUBSET Buffers BY <3>3
      <3>5. TotalSize(Unspilled \ {c}) \in Nat BY <3>4, TotalSizeType
      <3>6. CASE c \in Unspilled
        <4>1. TotalSize(Unspilled) = Size[c] + TotalSize(Unspilled \ {c})
          BY <3>3, <3>6, TotalSizeWithout
        <4>2. Size[c] \in Nat BY SizesAreNat
        <4> QED BY <3>2, <3>3, <3>5, <4>1, <4>2
      <3>7. CASE c \notin Unspilled
        <4>1. Unspilled \ {c} = Unspilled BY <3>7
        <4> QED BY <3>2, <3>3, <4>1
      <3> QED BY <3>6, <3>7
    <2>6. ASSUME NEW t \in Threads PROVE LimitInv(t)'
      <3>1. LimitInv(t) /\ need \in [Threads -> Int] BY DEF EvictionInv
      <3>2. /\ OutOfMemory(t)' <=> OutOfMemory(t)
            /\ At(t, "snapshot")' <=> At(t, "snapshot")
        BY <1>1 DEF OutOfMemory, At
      <3>3. need[t] \in Int /\ call[t].got \in Nat BY <2>2, <3>1 DEF TypeOK, CallType
      <3>4. TotalSize(Unspilled) \in Nat BY UnspilledType
      <3>5. ASSUME call[t].pc \in Scanning, ~OutOfMemory(t)
            PROVE /\ DeviceLimit # None
                  /\ TotalSize(Unspilled)' + (IF At(t, "snapshot") THEN 0 ELSE call[t].got)
                       <= need[t] + DeviceLimit
        <4>1. /\ DeviceLimit # None
              /\ TotalSize(Unspilled) + (IF At(t, "snapshot") THEN 0 ELSE call[t].got)
                   <= need[t] + DeviceLimit
          BY <3>1, <3>5 DEF LimitInv
        <4>2. DeviceLimit \in Int BY <4>1, LimitIsIntOrNone
        <4> QED BY <2>5, <3>3, <3>4, <4>1, <4>2
      <3> QED BY <1>1, <3>2, <3>5 DEF LimitInv
    <2>7. need' \in [Threads -> Int] /\ \A b \in managed' : Size[b] > 0
      BY <1>1, <2>3 DEF EvictionInv
    <2> QED BY <2>4, <2>6, <2>7 DEF EvictionInv
  <1>4. CASE \E a \in Threads \cup {Outside}, c \in Buffers, v \in Values : Write(a, c, v)
    BY <1>2, <1>4 DEF Write, pinVars
  <1>5. CASE \E f \in Frames : ReleaseFrame(f)
    BY <1>5 DEF Alone
  <1> QED BY <1>3, <1>4, <1>5 DEF Users

LEMMA NextScans ==
  ASSUME Alone, IInv, EvictionInv, [Next]_vars PROVE EvictionInv'
  <1>1. CASE UNCHANGED vars
    <2>1. UNCHANGED <<call, rank, managed, type, exposed, spillLocks, need>> BY <1>1 DEF vars
    <2>2. Unspilled' = Unspilled BY <2>1 DEF Unspilled, Spilled
    <2>3. TotalSize(Unspilled)' = TotalSize(Unspilled) BY <2>2
    <2> QED BY <2>1, <2>3
            DEF EvictionInv, ScanInv, LimitInv, OutOfMemory, At, Spilled, Spillable
  <1>2. CASE Users BY <1>2, UsersScan
  <1>3. ASSUME NEW t \in Threads, Step(t) \/ Begin(t) PROVE EvictionInv'
    <2>1. \A u \in Threads : u = t BY DEF Alone
    <2>2. CASE Begin(t)
      BY <2>1, <2>2, BeginScans DEF EvictionInv
    <2>3. CASE Step(t)
      <3>1. (\A b \in managed' : Size[b] > 0) /\ need' \in [Threads -> Int]
        BY <2>3, StepAdds
      <3>2. ScanInv(t)' /\ LimitInv(t)'
        <4>1. CASE call'[t].pc \notin Scanning
          BY <4>1 DEF ScanInv, LimitInv, Scanning
        <4>2. CASE call'[t].pc \in Scanning
          BY <2>3, <4>2, ScanningSteps, MeasureScans, SnapshotScans, SkipScans, EvictScans,
             EvictEndScans, HandlerScans
        <4> QED BY <4>1, <4>2
      <3> QED BY <2>1, <3>1, <3>2 DEF EvictionInv
    <2> QED BY <1>3, <2>2, <2>3
  <1> QED BY <1>1, <1>2, <1>3 DEF Next

LEMMA AloneForEver == Alone => []Alone
  <1>1. Alone => Alone' BY DEF Alone
  <1> QED BY <1>1, PTL

\* What a scan has left behind it, at any time: the inductive invariant of the
\* eviction policy.
THEOREM ScansLeaveNothing == Spec /\ Alone => []EvictionInv
  <1>1. Init => EvictionInv
    BY DEF Init, EvictionInv, ScanInv, LimitInv, Scanning, IdleCall
  <1>2. Alone /\ IInv /\ EvictionInv /\ [Next]_vars => EvictionInv' BY NextScans
  <1>3. Spec => []IInv BY InvariantHolds
  <1>4. Alone => []Alone BY AloneForEver
  <1> QED BY <1>1, <1>2, <1>3, <1>4, PTL DEF Spec

\* A step of a thread that is in a scan.
LEMMA LeavesScan ==
  ASSUME NEW t \in Threads, At(t, "scan"), Step(t)
  PROVE \/ \E b \in Buffers : ScanSkip(t, b) \/ Evict(t, b)
        \/ Resume(t) \/ ScanAgain(t) \/ GiveUp(t)
  BY DEF At, Step, MeasureLimit, Snapshot, EvictEnd, Acquire, OnDevice, PopMemoryview, Raises,
         Alloc, AllocFails, Settle, MarkExposed, SpillLock, UnspillEnd, ReturnPtr, SpillBegin,
         SpillEnd, OnHost, ReturnHost, ViewPinned, Serialize, NewBlock, Register, LeaveCopy

\* When the frame of a thread in a scan changes, it is a step of that thread.
LEMMA ScanMoves ==
  ASSUME Alone, [Next]_vars, NEW t \in Threads, At(t, "scan"), call' # call
  PROVE Step(t)
  <1>1. ~Users BY DEF Users, Write, ReleaseFrame, Drop
  <1>2. ~UNCHANGED vars BY DEF vars
  <1>3. ~Begin(t)
    BY DEF At, Begin, EnterContext, ExitContext, StartToLimit, StartAccess, StartLocked,
           StartCreate, StartCreateHost, StartCopy, Start
  <1> QED BY <1>1, <1>2, <1>3 DEF Next, Alone

\* MemoryError reaches the caller only when no managed buffer that could be
\* spilled is left on the device.
THEOREM MemoryErrorMeansNothingLeft == Spec /\ Alone => FailsOnlyWhenNothingIsLeft
  <1> DEFINE Left == \A b \in managed : Spilled(b) \/ ~Spillable(b)
             Failing(t) ==
               /\ At(t, "scan") /\ call[t].back \in {"alloc", "new"}
               /\ ~(call'[t].pc \in {"scan", "alloc", "new", "evict", "snapshot"})
  <1>1. ASSUME Alone, IInv, EvictionInv, [Next]_vars, NEW t \in Threads, Failing(t)
        PROVE Left
    <2>1. TypeOK BY <1>1 DEF IInv
    <2>2. Step(t) BY <1>1, ScanMoves DEF At
    <2>3. ~(\E b \in Buffers : ScanSkip(t, b))
      <3>1. ASSUME NEW b \in Buffers, ScanSkip(t, b) PROVE call'[t].pc = "scan"
        BY <2>1, <3>1 DEF ScanSkip, Frame, At, TypeOK, CallType
      <3> QED BY <1>1, <3>1
    <2>4. ~(\E b \in Buffers : Evict(t, b))
      <3>1. ASSUME NEW b \in Buffers, Evict(t, b) PROVE call'[t].pc = "evict"
        BY <2>1, <3>1 DEF Evict, Frame, TypeOK, CallType
      <3> QED BY <1>1, <3>1
    <2>5. ~Resume(t)
      <3>1. ASSUME Resume(t) PROVE call'[t].pc \in {"alloc", "new"}
        BY <1>1, <2>1, <3>1 DEF Resume, Proceed, Goto, Frame, TypeOK, CallType
      <3> QED BY <1>1, <3>1
    <2>6. ~ScanAgain(t)
      <3>1. ASSUME ScanAgain(t) PROVE call'[t].pc = "snapshot"
        BY <2>1, <3>1 DEF ScanAgain, Frame, TypeOK, CallType
      <3> QED BY <1>1, <3>1
    <2>7. GiveUp(t) BY <1>1, <2>2, <2>3, <2>4, <2>5, <2>6, LeavesScan
    <2>8. DOMAIN call[t].todo = {} /\ call[t].got = 0 /\ call[t].pc = "scan"
      BY <2>7 DEF GiveUp, ScanDone, At
    <2>9. ScanInv(t) BY <1>1 DEF EvictionInv
    <2> QED BY <2>8, <2>9 DEF ScanInv, At
  <1>2. Alone /\ IInv /\ EvictionInv /\ [Next]_vars =>
          [\A t \in Threads :
             At(t, "scan") /\ call[t].back \in {"alloc", "new"}
             /\ ~(call'[t].pc \in {"scan", "alloc", "new", "evict", "snapshot"})
             => \A b \in managed : Spilled(b) \/ ~Spillable(b)]_vars
    BY <1>1
  <1>3. Spec /\ Alone => []EvictionInv BY ScansLeaveNothing
  <1>4. Alone => []Alone BY AloneForEver
  <1> QED BY <1>2, <1>3, <1>4, InvariantHolds, PTL DEF Spec, FailsOnlyWhenNothingIsLeft

\* The buffer that is evicted is the least recently used of those that can be:
\* every managed buffer with an older access is spilled or unspillable.
THEOREM EvictionsGoByAge == Spec /\ Alone => EvictsLeastRecentlyUsed
  <1>1. ASSUME Alone, IInv, EvictionInv, [Next]_vars, NEW t \in Threads, NEW b \in Buffers,
               At(t, "scan"), call'[t].pc = "evict", depth'[b] > depth[b],
               NEW c \in managed, rank[c] < rank[b]
        PROVE Spilled(c) \/ ~Spillable(c)
    <2>1. TypeOK /\ ScanInv(t) /\ call[t].pc = "scan" BY <1>1 DEF IInv, EvictionInv, At
    <2>2. Step(t) BY <1>1, <2>1, ScanMoves
    <2>3. PICK v \in Buffers : Evict(t, v)
      <3>1. Snapshot(t) \/ EvictEnd(t) \/ \E v \in Buffers : ScanSkip(t, v) \/ Evict(t, v)
        <4>1. call'[t].pc \in Scanning BY <1>1 DEF Scanning
        <4>2. ~MeasureLimit(t) /\ ~AllocFails(t) BY <2>1 DEF MeasureLimit, AllocFails, At
        <4>3. ~ScanAgain(t)
          <5>1. ASSUME ScanAgain(t) PROVE call'[t].pc = "snapshot"
            BY <2>1, <5>1 DEF ScanAgain, Frame, TypeOK, CallType
          <5> QED BY <1>1, <5>1
        <4> QED BY <1>1, <2>2, <4>1, <4>2, <4>3, ScanningSteps
      <3>2. ~Snapshot(t) /\ ~EvictEnd(t) BY <2>1 DEF Snapshot, EvictEnd, At
      <3>3. ASSUME NEW v \in Buffers, ScanSkip(t, v) PROVE call'[t].pc = "scan"
        BY <2>1, <3>3 DEF ScanSkip, Frame, TypeOK, CallType
      <3> QED BY <1>1, <3>1, <3>2, <3>3
    <2>4. b = v
      <3>1. depth' = [depth EXCEPT ![v] = @ + 1] BY <2>3 DEF Evict, Lock
      <3>2. depth[b] \in Nat BY <2>1 DEF TypeOK
      <3> QED BY <1>1, <2>1, <3>1, <3>2 DEF TypeOK
    <2>5. b \in DOMAIN call[t].todo
          /\ \A d \in DOMAIN call[t].todo : call[t].todo[b] <= call[t].todo[d]
      BY <2>3, <2>4 DEF Evict, Oldest
    <2>6. \A d \in DOMAIN call[t].todo : call[t].todo[d] = rank[d]
      BY <2>1 DEF ScanInv
    <2>7. rank[b] \in Int /\ rank[c] \in Int BY <2>1 DEF TypeOK, Ranks
    <2>8. c \notin DOMAIN call[t].todo BY <1>1, <2>5, <2>6, <2>7
    <2>9. ~At(t, "evict") BY <2>1 DEF At
    <2> QED BY <2>1, <2>5, <2>8, <2>9 DEF ScanInv
  <1>2. Alone /\ IInv /\ EvictionInv /\ [Next]_vars =>
          [\A t \in Threads, b \in Buffers :
             At(t, "scan") /\ call'[t].pc = "evict" /\ depth'[b] > depth[b]
             => \A c \in managed : rank[c] < rank[b] => Spilled(c) \/ ~Spillable(c)]_vars
    BY <1>1
  <1>3. Spec /\ Alone => []EvictionInv BY ScansLeaveNothing
  <1>4. Alone => []Alone BY AloneForEver
  <1> QED BY <1>2, <1>3, <1>4, InvariantHolds, PTL DEF Spec, EvictsLeastRecentlyUsed

\* spill_to_device_limit ends with the unspilled buffers below the limit, or with
\* every one of them unspillable.
THEOREM LimitsAreKept == Spec /\ Alone => LimitIsKept
  <1>1. ASSUME Alone, IInv, EvictionInv, [Next]_vars, NEW t \in Threads,
               At(t, "scan"), ~(call[t].back \in {"alloc", "new"}),
               ~(call'[t].pc \in {"scan", "evict"})
        PROVE \/ TotalSize(Unspilled) <= DeviceLimit
              \/ \A b \in Unspilled : ~Spillable(b)
    <2>1. TypeOK /\ ScanInv(t) /\ LimitInv(t) /\ need \in [Threads -> Int]
      BY <1>1 DEF IInv, EvictionInv
    <2>2. call[t].pc = "scan" /\ ~OutOfMemory(t) /\ ~At(t, "evict") /\ ~At(t, "snapshot")
      BY <1>1 DEF At, OutOfMemory
    <2>3. Step(t) BY <1>1, <2>2, ScanMoves
    <2>4. ~(\E b \in Buffers : ScanSkip(t, b) \/ Evict(t, b))
      <3>1. ASSUME NEW b \in Buffers, ScanSkip(t, b) PROVE call'[t].pc = "scan"
        BY <2>1, <2>2, <3>1 DEF ScanSkip, Frame, TypeOK, CallType
      <3>2. ASSUME NEW b \in Buffers, Evict(t, b) PROVE call'[t].pc = "evict"
        BY <2>1, <3>2 DEF Evict, Frame, TypeOK, CallType
      <3> QED BY <1>1, <3>1, <3>2
    <2>5. DOMAIN call[t].todo = {}
      <3>1. Resume(t) \/ ScanAgain(t) \/ GiveUp(t) BY <1>1, <2>3, <2>4, LeavesScan
      <3> QED BY <3>1 DEF Resume, ScanAgain, GiveUp, ScanDone
    <2>6. call[t].got \in Nat /\ need[t] \in Int BY <2>1 DEF TypeOK, CallType
    <2>7. CASE call[t].got < need[t]
      BY <2>1, <2>2, <2>5, <2>7 DEF ScanInv, Unspilled
    <2>8. CASE ~(call[t].got < need[t])
      <3>1. DeviceLimit # None /\ TotalSize(Unspilled) + call[t].got <= need[t] + DeviceLimit
        BY <2>1, <2>2 DEF LimitInv, Scanning
      <3>2. DeviceLimit \in Int BY <3>1, LimitIsIntOrNone
      <3>3. TotalSize(Unspilled) \in Nat BY <1>1, UnspilledType
      <3> QED BY <2>6, <2>8, <3>1, <3>2, <3>3
    <2> QED BY <2>7, <2>8
  <1>2. Alone /\ IInv /\ EvictionInv /\ [Next]_vars =>
          [\A t \in Threads :
             At(t, "scan") /\ ~(call[t].back \in {"alloc", "new"})
             /\ ~(call'[t].pc \in {"scan", "evict"})
             => \/ TotalSize(Unspilled) <= DeviceLimit
                \/ \A b \in Unspilled : ~Spillable(b)]_vars
    BY <1>1
  <1>3. Spec /\ Alone => []EvictionInv BY ScansLeaveNothing
  <1>4. Alone => []Alone BY AloneForEver
  <1> QED BY <1>2, <1>3, <1>4, InvariantHolds, PTL DEF Spec, LimitIsKept

(***************************************************************************)
(* SpillManager implements BufferStore, for any threads, frames, buffers,  *)
(* sizes and bounds: wherever the bytes of a buffer are, and whoever moves *)
(* them, its users see one content.                                        *)
(***************************************************************************)
(* What IInv must add to say where the bytes are. *)

\* A block on the device is that of a buffer that says so, or is about to.
DataInv(b) ==
  /\ type[b] = "absent" => device[b] = None
  /\ type[b] = "cpu" /\ device[b] # None =>
       \E t \in Threads : At(t, "settle") /\ call[t].arg = b

\* Bytes that are under way are the content, and a device copy's source is pinned.
MoveInv(t) ==
  LET b == call[t].arg
      c == call[t].victim
  IN
  /\ Unspilling(t) => memoryview[b] = None
  /\ At(t, "evict") => staged[c] = device[c]
  /\ At(t, "dtoh") => staged[b] = device[b]
  /\ At(t, "host") /\ ToView(t) => device[b] = None /\ memoryview[b] # None
  /\ call[t].op = "copyDevice" /\ (At(t, "new") \/ call[t].back = "new")
       => b # None /\ t \in spillLocks[b]
  /\ call[t].op = "copyHost" => ~At(t, "new") /\ call[t].back # "new"

StoreInv == (\A b \in Buffers : DataInv(b)) /\ (\A t \in Threads : MoveInv(t))

(* The store that the buffers look like. *)

Holders(b) == spillLocks[b] \cup IF exposed[b] THEN {Outside} ELSE {}

Same(b) == Content(b)' = Content(b) /\ Holders(b)' = Holders(b)
OthersSame(b) == \A c \in Buffers \ {b} : Same(c)

\* The steps of the store but Lose.
Faithful ==
  \/ \A b \in Buffers : Same(b)
  \/ \E b \in Buffers, v \in Values, H \in SUBSET Accessors :
       /\ Content(b) = Absent /\ Content(b)' = v /\ Holders(b)' = H /\ OthersSame(b)
  \/ \E b \in Buffers, a \in Accessors :
       /\ Content(b) \in Values /\ Holders(b)' = Holders(b) \cup {a}
       /\ OthersSame(b) /\ Content(b)' = Content(b)
  \/ \E a \in Accessors : \A b \in Buffers :
       Content(b)' = Content(b) /\ Holders(b)' = Holders(b) \ {a}
  \/ \E b \in Buffers, a \in Accessors, v \in Values :
       /\ a \in Holders(b) /\ Content(b) \in Values
       /\ Content(b)' = v /\ Holders(b)' = Holders(b) /\ OthersSame(b)
  \/ \E b \in Buffers :
       /\ Content(b) # Absent /\ Content(b)' = Absent /\ Holders(b)' = {} /\ OthersSame(b)

Loses ==
  \E b \in Buffers :
    /\ Holders(b) = {} /\ Content(b) \in Values /\ Content(b)' = Lost
    /\ Holders(b)' = {} /\ OthersSame(b)

LEMMA FaithfulStep ==
  ASSUME Faithful PROVE [Store!StoreNext]_(Store!storeVars)
<1> DEFINE val == [b \in Buffers |-> Content(b)]
           hold == [b \in Buffers |-> spillLocks[b] \cup IF exposed[b] THEN {Outside} ELSE {}]
<1>1. \A b \in Buffers : hold[b] = Holders(b) /\ val[b] = Content(b)
  BY DEF Holders
<1>2. hold' = [b \in Buffers |-> Holders(b)'] /\ val' = [b \in Buffers |-> Content(b)']
  BY DEF Holders
<1>3. CASE \A b \in Buffers : Same(b)
  <2>1. val' = val /\ hold' = hold
    BY <1>1, <1>2, <1>3 DEF Same
  <2> QED
    BY <2>1 DEF Store!storeVars
<1>4. ASSUME NEW b \in Buffers, NEW v \in Values, NEW H \in SUBSET Accessors,
             Content(b) = Absent, Content(b)' = v, Holders(b)' = H, OthersSame(b)
      PROVE  Store!Create(b, v, H)
  <2>1. val' = [val EXCEPT ![b] = v] /\ hold' = [hold EXCEPT ![b] = H]
    BY <1>1, <1>2, <1>4 DEF Same, OthersSame
  <2> QED
    BY <1>1, <1>4, <2>1 DEF Store!Create
<1>5. ASSUME NEW b \in Buffers, NEW a \in Accessors, Content(b) \in Values,
             Holders(b)' = Holders(b) \cup {a}, OthersSame(b), Content(b)' = Content(b)
      PROVE  Store!Grant(b, a)
  <2>1. val' = val /\ hold' = [hold EXCEPT ![b] = @ \cup {a}]
    BY <1>1, <1>2, <1>5 DEF Same, OthersSame
  <2> QED
    BY <1>1, <1>5, <2>1 DEF Store!Grant
<1>6. ASSUME NEW a \in Accessors,
             \A b \in Buffers : Content(b)' = Content(b) /\ Holders(b)' = Holders(b) \ {a}
      PROVE  Store!Release(a)
  <2>1. val' = val /\ hold' = [b \in Buffers |-> hold[b] \ {a}]
    BY <1>1, <1>2, <1>6
  <2> QED
    BY <2>1 DEF Store!Release
<1>7. ASSUME NEW b \in Buffers, NEW a \in Accessors, NEW v \in Values, a \in Holders(b),
             Content(b) \in Values, Content(b)' = v, Holders(b)' = Holders(b), OthersSame(b)
      PROVE  Store!Write(b, a, v)
  <2>1. val' = [val EXCEPT ![b] = v] /\ hold' = hold
    BY <1>1, <1>2, <1>7 DEF Same, OthersSame
  <2> QED
    BY <1>1, <1>7, <2>1 DEF Store!Write
<1>8. ASSUME NEW b \in Buffers, Content(b) # Absent, Content(b)' = Absent,
             Holders(b)' = {}, OthersSame(b)
      PROVE  Store!Discard(b)
  <2>1. val' = [val EXCEPT ![b] = Absent] /\ hold' = [hold EXCEPT ![b] = {}]
    BY <1>1, <1>2, <1>8 DEF Same, OthersSame
  <2> QED
    BY <1>1, <1>8, <2>1 DEF Store!Discard
<1> QED
  BY <1>3, <1>4, <1>5, <1>6, <1>7, <1>8 DEF Faithful, Store!StoreNext

LEMMA LosingStep ==
  ASSUME Loses PROVE Store!StoreNext
<1> DEFINE val == [b \in Buffers |-> Content(b)]
           hold == [b \in Buffers |-> spillLocks[b] \cup IF exposed[b] THEN {Outside} ELSE {}]
<1>1. PICK b \in Buffers :
        /\ Holders(b) = {} /\ Content(b) \in Values /\ Content(b)' = Lost
        /\ Holders(b)' = {} /\ OthersSame(b)
  BY DEF Loses
<1>2. \A c \in Buffers : hold[c] = Holders(c) /\ val[c] = Content(c)
  BY DEF Holders
<1>3. hold' = [c \in Buffers |-> Holders(c)'] /\ val' = [c \in Buffers |-> Content(c)']
  BY DEF Holders
<1>4. val' = [val EXCEPT ![b] = Lost] /\ hold' = hold
  BY <1>1, <1>2, <1>3 DEF Same, OthersSame
<1>5. Store!Lose(b)
  BY <1>1, <1>2, <1>4 DEF Store!Lose
<1> QED
  BY <1>5 DEF Store!StoreNext

\* What has been lost stays so, and nothing else is lost.
LEMMA FaithfulKeeps ==
  ASSUME Faithful, NEW b \in Buffers, Content(b)' = Lost PROVE Content(b) = Lost
<1>1. Lost # Absent /\ Lost \notin Values
  BY NamesDiffer
<1> QED
  BY <1>1 DEF Faithful, Same, OthersSame

(* Steps of one thread. *)

\* The thread that is about to settle a buffer has its lock.
LEMMA Settling ==
  ASSUME IInv, StoreInv, NEW b \in Buffers, type[b] # "gpu", device[b] # None
  PROVE  \E t \in Threads : At(t, "settle") /\ call[t].arg = b /\ lockedBy[b] = t
<1>1. type[b] = "cpu"
  BY DEF IInv, TypeOK, StoreInv, DataInv
<1>2. PICK t \in Threads : At(t, "settle") /\ call[t].arg = b
  BY <1>1 DEF StoreInv, DataInv
<1>3. UnderLock(t) /\ ArgInv(t)
  BY <1>2 DEF UnderLock, At, IInv
<1> QED
  BY <1>2, <1>3 DEF ArgInv

\* What a thread needs of the bytes that it does not move itself.
Undisturbed(u) ==
  /\ call'[u] = call[u]
  /\ \A b \in Buffers :
       /\ lockedBy[b] = u => /\ memoryview'[b] = memoryview[b] /\ staged'[b] = staged[b]
                             /\ device'[b] = device[b] \/ ~Spillable(b)
       /\ b = call[u].arg /\ u \in spillLocks[b] => u \in spillLocks'[b]

LEMMA Undisturbs ==
  ASSUME IInv, NEW u \in Threads, MoveInv(u), Undisturbed(u)
  PROVE  MoveInv(u)'
<1> PICK b, c : b = call[u].arg /\ c = call[u].victim
  OBVIOUS
<1>1. ArgInv(u) /\ VictimInv(u) /\ b \in Buffers \cup {None} /\ c \in Buffers \cup {None}
  BY DEF IInv, TypeOK, CallType
<1>2. call'[u] = call[u]
  BY DEF Undisturbed
<1>3. (UnderLock(u)' <=> UnderLock(u)) /\ (Unspilling(u)' <=> Unspilling(u))
  BY <1>2, SameFrame
<1>4. /\ \A label : At(u, label)' <=> At(u, label)
      /\ ToView(u)' <=> ToView(u)
      /\ call'[u].arg = b /\ call'[u].victim = c /\ call'[u].op = call[u].op
      /\ call'[u].back = call[u].back
  BY <1>2 DEF At, ToView
<1>5. UnderLock(u) => b \in Buffers /\ lockedBy[b] = u
  BY <1>1 DEF ArgInv
<1>6. Unspilling(u) => memoryview'[b] = None
  <2>1. Unspilling(u) => UnderLock(u)
    BY DEF UnderLock
  <2> QED
    BY <1>5, <2>1 DEF Undisturbed, MoveInv
<1>7. At(u, "evict") => staged'[c] = device'[c]
  <2>1. At(u, "evict") => c \in Buffers /\ lockedBy[c] = u /\ Spillable(c)
    BY <1>1 DEF VictimInv
  <2> QED
    BY <2>1 DEF Undisturbed, MoveInv
<1>8. At(u, "dtoh") => staged'[b] = device'[b]
  <2>1. At(u, "dtoh") => UnderLock(u) /\ Spillable(b)
    BY <1>1 DEF ArgInv, UnderLock, At
  <2> QED
    BY <1>5, <2>1 DEF Undisturbed, MoveInv
<1>9. At(u, "host") /\ ToView(u) => device'[b] = None /\ memoryview'[b] # None
  <2> SUFFICES ASSUME At(u, "host"), ToView(u)
               PROVE  device'[b] = None /\ memoryview'[b] # None
    OBVIOUS
  <2>1. UnderLock(u) /\ b \in Buffers /\ lockedBy[b] = u
    BY <1>5 DEF UnderLock, At
  <2>2. device[b] = None /\ memoryview[b] # None
    BY DEF MoveInv
  <2>3. BufferInv(b)
    BY <2>1 DEF IInv
  <2>4. Spillable(b)
    BY <2>2, <2>3 DEF BufferInv
  <2> QED
    BY <2>1, <2>2, <2>4 DEF Undisturbed
<1>10. call[u].op = "copyDevice" /\ (At(u, "new") \/ call[u].back = "new")
         => b # None /\ u \in spillLocks'[b]
  BY <1>1 DEF Undisturbed, MoveInv
<1>11. call[u].op = "copyHost" => ~At(u, "new") /\ call[u].back # "new"
  BY DEF MoveInv
<1> QED
  BY <1>3, <1>4, <1>6, <1>7, <1>8, <1>9, <1>10, <1>11 DEF MoveInv

\* The buffers where nothing happens keep DataInv, if nobody stops settling them.
LEMMA DataKept ==
  ASSUME NEW b, DataInv(b), type'[b] = type[b], device'[b] = device[b],
         \A u \in Threads : At(u, "settle") /\ call[u].arg = b => call'[u] = call[u]
  PROVE  DataInv(b)'
  BY DEF DataInv, At

LEMMA ThreadStep ==
  ASSUME IInv, StoreInv, NEW t \in Threads, \A u \in Threads \ {t} : Undisturbed(u),
         MoveInv(t)',
         \A b \in Buffers :
           \/ DataInv(b)'
           \/ /\ type'[b] = type[b] /\ device'[b] = device[b]
              /\ ~(At(t, "settle") /\ call[t].arg = b)
  PROVE  StoreInv'
<1>1. \A u \in Threads : MoveInv(u)'
  BY Undisturbs DEF StoreInv
<1>2. ASSUME NEW b \in Buffers PROVE DataInv(b)'
  <2>1. CASE DataInv(b)'
    BY <2>1
  <2>2. CASE type'[b] = type[b] /\ device'[b] = device[b] /\ ~(At(t, "settle") /\ call[t].arg = b)
    <3>1. \A u \in Threads : At(u, "settle") /\ call[u].arg = b => call'[u] = call[u]
      BY <2>2 DEF Undisturbed
    <3> QED
      BY <2>2, <3>1, DataKept DEF StoreInv
  <2> QED
    BY <2>1, <2>2
<1> QED
  BY <1>1, <1>2 DEF StoreInv

Good == StoreInv' /\ Faithful

\* A step that touches neither bytes nor pins: it is not seen.
LEMMA UnseenStep ==
  ASSUME IInv, StoreInv, NEW t \in Threads, UNCHANGED <<memVars, pinVars>>,
         \A u \in Threads \ {t} : call'[u] = call[u], ~At(t, "settle"), MoveInv(t)'
  PROVE  Good
<1>1. UNCHANGED <<type, device, memoryview, staged, exposed, spillLocks>>
  BY DEF memVars, pinVars
<1>2. \A b \in Buffers : Same(b)
  BY <1>1 DEF Same, Content, Holders
<1>3. \A u \in Threads \ {t} : Undisturbed(u)
  BY <1>1 DEF Undisturbed
<1>4. StoreInv'
  BY <1>1, <1>3, ThreadStep
<1> QED
  BY <1>2, <1>4 DEF Good, Faithful

\* A frame that moves no bytes and makes no copy.
LEMMA AtRest ==
  ASSUME NEW t, call'[t].pc \notin {"alloc", "evict", "dtoh", "host", "new"},
         call'[t].back \notin {"alloc", "new"}
  PROVE  MoveInv(t)'
  BY DEF MoveInv, Unspilling, At

\* A frame that goes on with what it was doing.
LEMMA GoesOn ==
  ASSUME NEW t, MoveInv(t), UNCHANGED <<memVars, pinVars>>,
         call'[t].pc \notin {"evict", "dtoh", "host"},
         call'[t].op = call[t].op, call'[t].arg = call[t].arg,
         Unspilling(t)' => Unspilling(t),
         At(t, "new")' \/ call'[t].back = "new" => At(t, "new") \/ call[t].back = "new"
  PROVE  MoveInv(t)'
<1>1. UNCHANGED <<type, device, memoryview, staged, exposed, spillLocks>>
  BY DEF memVars, pinVars
<1> QED
  BY <1>1 DEF MoveInv, At

\* A frame that is put in place for a thread.
LEMMA NewFrame ==
  ASSUME TypeOK, NEW t \in Threads, NEW r, Frame(t, r)
  PROVE  call'[t] = r /\ \A u \in Threads \ {t} : call'[u] = call[u]
  BY DEF Frame, TypeOK

(* Steps that are not seen. *)

LEMMA ReturnUnseen ==
  ASSUME IInv, StoreInv, NEW t \in Threads, UNCHANGED <<memVars, pinVars>>,
         ~At(t, "settle"), Return(t)
  PROVE  Good
<1>1. /\ call'[t].pc \in {"leave", "idle"} /\ call'[t].back = "idle"
      /\ \A u \in Threads \ {t} : call'[u] = call[u]
  BY ReturnFields DEF IInv
<1>2. MoveInv(t)'
  BY <1>1, AtRest
<1> QED
  BY <1>1, <1>2, UnseenStep

LEMMA GotoUnseen ==
  ASSUME IInv, StoreInv, NEW t \in Threads, UNCHANGED <<memVars, pinVars>>,
         ~At(t, "settle"),
         NEW label \in Labels \ {"evict", "dtoh", "host"}, Goto(t, label),
         label = "alloc" => Unspilling(t),
         label = "new" => call[t].back = "new",
         label \in {"snapshot", "scan"} /\ call[t].back = "alloc" => Unspilling(t)
  PROVE  Good
<1>1. /\ call'[t].pc = label /\ call'[t].op = call[t].op /\ call'[t].arg = call[t].arg
      /\ call'[t].back = call[t].back
      /\ \A u \in Threads \ {t} : call'[u] = call[u]
  BY GotoFields DEF IInv
<1>2. Unspilling(t)' => Unspilling(t)
  BY <1>1 DEF Unspilling, At
<1>3. MoveInv(t)
  BY DEF StoreInv
<1>4. MoveInv(t)'
  BY <1>1, <1>2, <1>3, GoesOn DEF At
<1> QED
  BY <1>1, <1>4, UnseenStep

LEMMA MeasureLimitKeeps ==
  ASSUME IInv, StoreInv, NEW t \in Threads, MeasureLimit(t) PROVE Good
<1>1. UNCHANGED <<memVars, pinVars>> /\ ~At(t, "settle")
  BY DEF MeasureLimit, At
<1>2. call[t].back \in {"idle", "wait"}
  BY DEF MeasureLimit, IInv, PlaceInv
<1>3. Return(t) \/ Goto(t, "wait") \/ Goto(t, "snapshot")
  BY <1>2 DEF MeasureLimit, Proceed
<1> QED
  BY <1>1, <1>2, <1>3, ReturnUnseen, GotoUnseen DEF Labels

LEMMA ResumeKeeps ==
  ASSUME IInv, StoreInv, NEW t \in Threads, Resume(t) PROVE Good
<1>1. UNCHANGED <<memVars, pinVars>> /\ ~At(t, "settle") /\ At(t, "scan")
  BY DEF Resume, ScanDone, At
<1>2. call[t].back \in {"idle", "wait", "alloc", "new"}
  BY DEF IInv, TypeOK, CallType
<1>3. Return(t) \/ (call[t].back \in {"wait", "alloc", "new"} /\ Goto(t, call[t].back))
  BY <1>2 DEF Resume, Proceed
<1>4. call[t].back = "alloc" => Unspilling(t)
  BY <1>1 DEF Unspilling, At
<1> QED
  BY <1>1, <1>2, <1>3, <1>4, ReturnUnseen, GotoUnseen DEF Labels

\* The thread's frame changes while it scans, or on the way to the scan.
LEMMA ScanUnseen ==
  ASSUME IInv, StoreInv, NEW t \in Threads, UNCHANGED <<memVars, pinVars>>, NEW r, Frame(t, r),
         call[t].pc \in {"snapshot", "scan", "alloc", "new"}, r.pc \in {"snapshot", "scan"},
         r.op = call[t].op, r.arg = call[t].arg,
         \/ r.back = call[t].back /\ call[t].pc \in {"snapshot", "scan"}
         \/ r.back = call[t].pc
  PROVE  Good
<1>1. call'[t] = r /\ \A u \in Threads \ {t} : call'[u] = call[u]
  BY NewFrame DEF IInv
<1>2. Unspilling(t)' => Unspilling(t)
  BY <1>1 DEF Unspilling, At
<1>3. At(t, "new")' \/ call'[t].back = "new" => At(t, "new") \/ call[t].back = "new"
  BY <1>1 DEF At
<1>4. MoveInv(t)
  BY DEF StoreInv
<1>5. MoveInv(t)'
  BY <1>1, <1>2, <1>3, <1>4, GoesOn
<1> QED
  BY <1>1, <1>5, UnseenStep DEF At

LEMMA ScansKeep ==
  ASSUME IInv, StoreInv, NEW t \in Threads,
         Snapshot(t) \/ (\E b \in Buffers : ScanSkip(t, b)) \/ ScanAgain(t) \/ AllocFails(t)
  PROVE  Good
<1>1. call[t] \in CallType
  BY DEF IInv, TypeOK
<1>2. CASE Snapshot(t)
  <2> DEFINE r == [call[t] EXCEPT !.pc = "scan", !.got = 0,
                                  !.todo = [b \in managed |-> rank[b]]]
  <2>1. r.pc = "scan" /\ r.op = call[t].op /\ r.arg = call[t].arg /\ r.back = call[t].back
    BY <1>1 DEF CallType
  <2>2. Frame(t, r) /\ UNCHANGED <<memVars, pinVars>> /\ call[t].pc = "snapshot"
    BY <1>2 DEF Snapshot, At
  <2> HIDE DEF r
  <2> QED
    BY <2>1, <2>2, ScanUnseen
<1>3. ASSUME NEW b \in Buffers, ScanSkip(t, b) PROVE Good
  <2> DEFINE r == [call[t] EXCEPT !.todo = Without(t, b)]
  <2>1. r.pc = call[t].pc /\ r.op = call[t].op /\ r.arg = call[t].arg /\ r.back = call[t].back
    BY <1>1 DEF CallType
  <2>2. Frame(t, r) /\ UNCHANGED <<memVars, pinVars>> /\ call[t].pc = "scan"
    BY <1>3 DEF ScanSkip, At
  <2> HIDE DEF r
  <2> QED
    BY <2>1, <2>2, ScanUnseen
<1>4. CASE ScanAgain(t)
  <2> DEFINE r == [call[t] EXCEPT !.pc = "snapshot", !.retryOnce = FALSE]
  <2>1. r.pc = "snapshot" /\ r.op = call[t].op /\ r.arg = call[t].arg /\ r.back = call[t].back
    BY <1>1 DEF CallType
  <2>2. Frame(t, r) /\ UNCHANGED <<memVars, pinVars>> /\ call[t].pc = "scan"
    BY <1>4 DEF ScanAgain, ScanDone, At
  <2> HIDE DEF r
  <2> QED
    BY <2>1, <2>2, ScanUnseen
<1>5. CASE AllocFails(t)
  <2> DEFINE r == [call[t] EXCEPT !.pc = "snapshot", !.back = call[t].pc, !.retryOnce = TRUE]
  <2>1. r.pc = "snapshot" /\ r.op = call[t].op /\ r.arg = call[t].arg /\ r.back = call[t].pc
    BY <1>1 DEF CallType
  <2>2. Frame(t, r) /\ UNCHANGED <<memVars, pinVars>> /\ call[t].pc \in {"alloc", "new"}
    BY <1>5 DEF AllocFails
  <2> HIDE DEF r
  <2> QED
    BY <2>1, <2>2, ScanUnseen
<1> QED
  BY <1>2, <1>3, <1>4, <1>5

LEMMA LocksKeep ==
  ASSUME IInv, StoreInv, NEW t \in Threads,
         Acquire(t) \/ OnDevice(t) \/ Raises(t) \/ UnspillEnd(t)
  PROVE  Good
<1>1. UNCHANGED <<memVars, pinVars>> /\ ~At(t, "settle")
  BY DEF Acquire, OnDevice, Raises, UnspillEnd, At
<1>2. Goto(t, "locked") \/ Goto(t, "unspilled") \/ Return(t)
  BY DEF Acquire, OnDevice, Raises, UnspillEnd
<1> QED
  BY <1>1, <1>2, GotoUnseen, ReturnUnseen DEF Labels

LEMMA OnHostKeeps ==
  ASSUME IInv, StoreInv, NEW t \in Threads, OnHost(t) PROVE Good
<1> PICK b : b = call[t].arg
  OBVIOUS
<1>1. UNCHANGED <<memVars, pinVars>> /\ ~At(t, "settle") /\ At(t, "locked") /\ Goto(t, "host")
  BY DEF OnHost, At
<1>2. /\ call'[t].pc = "host" /\ call'[t].op = call[t].op /\ call'[t].arg = b
      /\ call'[t].back = call[t].back
      /\ \A u \in Threads \ {t} : call'[u] = call[u]
  BY <1>1, GotoFields DEF IInv, Labels
<1>3. b \in Buffers /\ lockedBy[b] = t
  BY <1>1, Inside DEF UnderLock, At
<1>4. ToView(t) => memoryview[b] # None /\ device[b] = None
  <2> SUFFICES ASSUME ToView(t) PROVE memoryview[b] # None /\ device[b] = None
    OBVIOUS
  <2>1. Spilled(b) /\ memoryview[b] # None
    BY DEF OnHost, ToView
  <2>2. ~(\E u \in Threads : At(u, "settle") /\ lockedBy[b] = u)
    BY <1>1, <1>3
  <2> QED
    BY <1>3, <2>1, <2>2, Settling DEF Spilled
<1>5. UNCHANGED <<type, device, memoryview, staged, exposed, spillLocks>>
  BY <1>1 DEF memVars, pinVars
<1>6. MoveInv(t)'
  BY <1>2, <1>4, <1>5 DEF StoreInv, MoveInv, Unspilling, At, ToView
<1> QED
  BY <1>1, <1>2, <1>6, UnseenStep

LEMMA ReturnPtrKeeps ==
  ASSUME IInv, StoreInv, NEW t \in Threads, ReturnPtr(t) PROVE Good
<1>1. UNCHANGED <<memVars, pinVars>> /\ ~At(t, "settle") /\ At(t, "ret")
  BY DEF ReturnPtr, At
<1>2. CASE Return(t)
  BY <1>1, <1>2, ReturnUnseen
<1>3. CASE call[t].op = "copyDevice" /\ Goto(t, "new")
  <2>1. /\ call'[t].pc = "new" /\ call'[t].op = call[t].op /\ call'[t].arg = call[t].arg
        /\ call'[t].back = call[t].back
        /\ \A u \in Threads \ {t} : call'[u] = call[u]
    BY <1>3, GotoFields DEF IInv, Labels
  <2>2. call[t].arg # None /\ t \in spillLocks[call[t].arg]
    BY <1>1, <1>3 DEF IInv, ArgInv, At
  <2>3. UNCHANGED spillLocks
    BY <1>1 DEF pinVars
  <2>4. MoveInv(t)'
    BY <1>3, <2>1, <2>2, <2>3 DEF MoveInv, Unspilling, At
  <2> QED
    BY <1>1, <2>1, <2>4, UnseenStep
<1> QED
  BY <1>2, <1>3 DEF ReturnPtr

\* A frame that is put in place where a call starts or has made its buffer.
LEMMA FrameUnseen ==
  ASSUME IInv, StoreInv, NEW t \in Threads, UNCHANGED <<memVars, pinVars>>,
         ~At(t, "settle"), NEW r, Frame(t, r),
         r.pc \notin {"alloc", "evict", "dtoh", "host"}, r.pc = "new" => r.op \notin {"copyDevice", "copyHost"},
         r.back \notin {"alloc", "new"}
  PROVE  Good
<1>1. call'[t] = r /\ \A u \in Threads \ {t} : call'[u] = call[u]
  BY NewFrame DEF IInv
<1>2. MoveInv(t)'
  BY <1>1 DEF MoveInv, Unspilling, At
<1> QED
  BY <1>1, <1>2, UnseenStep

LEMMA RegisterKeeps ==
  ASSUME IInv, StoreInv, NEW t \in Threads, Register(t) PROVE Good
<1> DEFINE r == [call[t] EXCEPT !.pc = "limit", !.back = "idle"]
<1>1. call[t] \in CallType
  BY DEF IInv, TypeOK
<1>2. r.pc = "limit" /\ r.back = "idle"
  BY <1>1 DEF CallType
<1>3. Frame(t, r) /\ UNCHANGED <<memVars, pinVars>> /\ ~At(t, "settle")
  BY DEF Register, At
<1> HIDE DEF r
<1> QED
  BY <1>2, <1>3, FrameUnseen

LEMMA StartsKeep ==
  ASSUME IInv, StoreInv, NEW t \in Threads,
         \/ StartToLimit(t)
         \/ \E b \in Buffers :
              \/ StartAccess(t, b)
              \/ \E name \in Calls : StartLocked(t, b, name) \/ StartCreate(t, b, name)
              \/ \E c \in Buffers : StartCopy(t, b, c)
  PROVE  Good
<1>1. ASSUME NEW name, NEW r, Start(t, name, r), UNCHANGED <<memVars, pinVars>>,
             r.pc \in {"limit", "wait", "new"}, r.back \in {"idle", "wait"},
             r.pc = "new" => r.op \notin {"copyDevice", "copyHost"}
      PROVE  Good
  <2>1. ~At(t, "settle") /\ Frame(t, r)
    BY <1>1 DEF Start, At
  <2> QED
    BY <1>1, <2>1, FrameUnseen
<1>2. CASE StartToLimit(t)
  <2> DEFINE r == [IdleCall EXCEPT !.pc = "limit", !.op = "toLimit"]
  <2>1. r.pc = "limit" /\ r.back = "idle"
    BY DEF IdleCall
  <2>2. Start(t, "toLimit", r) /\ UNCHANGED <<memVars, pinVars>>
    BY <1>2 DEF StartToLimit
  <2> HIDE DEF r
  <2> QED
    BY <1>1, <2>1, <2>2
<1>3. ASSUME NEW b \in Buffers, StartAccess(t, b) PROVE Good
  <2> DEFINE r1 == [IdleCall EXCEPT !.pc = "limit", !.op = "access", !.arg = b, !.back = "wait"]
             r2 == [IdleCall EXCEPT !.pc = "wait", !.op = "pin", !.arg = b]
  <2>1. r1.pc = "limit" /\ r1.back = "wait" /\ r2.pc = "wait" /\ r2.back = "idle"
    BY DEF IdleCall
  <2>2. (Start(t, "access", r1) \/ Start(t, "access", r2)) /\ UNCHANGED <<memVars, pinVars>>
    BY <1>3 DEF StartAccess
  <2> HIDE DEF r1, r2
  <2> QED
    BY <1>1, <2>1, <2>2
<1>4. ASSUME NEW b \in Buffers, NEW name \in Calls, StartLocked(t, b, name) PROVE Good
  <2> DEFINE r == [IdleCall EXCEPT !.pc = "wait", !.op = name, !.arg = b]
  <2>1. r.pc = "wait" /\ r.back = "idle"
    BY DEF IdleCall
  <2>2. Start(t, name, r) /\ UNCHANGED <<memVars, pinVars>>
    BY <1>4 DEF StartLocked
  <2> HIDE DEF r
  <2> QED
    BY <1>1, <2>1, <2>2
<1>5. ASSUME NEW b \in Buffers, NEW name \in Calls, StartCreate(t, b, name) PROVE Good
  <2> DEFINE r == [IdleCall EXCEPT !.pc = "new", !.op = name, !.dst = b]
  <2>1. r.pc = "new" /\ r.back = "idle" /\ r.op = name
    BY DEF IdleCall
  <2>2. Start(t, name, r) /\ UNCHANGED <<memVars, pinVars>> /\ name \in {"create", "createExposed"}
    BY <1>5 DEF StartCreate
  <2> HIDE DEF r
  <2> QED
    BY <1>1, <2>1, <2>2
<1>6. ASSUME NEW b \in Buffers, NEW c \in Buffers, StartCopy(t, b, c) PROVE Good
  <2> DEFINE op == IF Spilled(b) THEN "copyHost" ELSE "copyDevice"
             r == [IdleCall EXCEPT !.pc = "wait", !.arg = b, !.dst = c, !.op = op]
  <2>1. r.pc = "wait" /\ r.back = "idle"
    BY DEF IdleCall
  <2>2. Start(t, "copy", r) /\ UNCHANGED <<memVars, pinVars>>
    BY <1>6 DEF StartCopy
  <2> HIDE DEF r
  <2> QED
    BY <1>1, <2>1, <2>2
<1> QED
  BY <1>2, <1>3, <1>4, <1>5, <1>6

LEMMA EnterContextKeeps ==
  ASSUME IInv, StoreInv, NEW t \in Threads, EnterContext(t) PROVE Good
<1>1. UNCHANGED <<memVars, pinVars>> /\ call' = call /\ ~At(t, "settle")
  BY DEF EnterContext, At
<1>2. call[t] = IdleCall
  BY IdleIsOutside DEF EnterContext
<1>3. MoveInv(t)'
  BY <1>1, <1>2, AtRest DEF IdleCall
<1> QED
  BY <1>1, <1>3, UnseenStep

(* Steps that change who holds a pointer. *)

LEMMA AnyStep ==
  ASSUME IInv, StoreInv, \A u \in Threads : Undisturbed(u),
         \A b \in Buffers : DataInv(b)' \/ (type'[b] = type[b] /\ device'[b] = device[b])
  PROVE  StoreInv'
<1>1. \A u \in Threads : MoveInv(u)'
  BY Undisturbs DEF StoreInv
<1>2. \A b \in Buffers : DataInv(b)'
  BY DataKept DEF StoreInv, Undisturbed
<1> QED
  BY <1>1, <1>2 DEF StoreInv

\* Pins of other threads do not go, and no bytes move.
LEMMA PinStep ==
  ASSUME IInv, StoreInv, NEW t \in Threads, UNCHANGED memVars, ~At(t, "settle"),
         \A u \in Threads \ {t} : call'[u] = call[u],
         \A u \in Threads \ {t}, b \in Buffers : u \in spillLocks[b] => u \in spillLocks'[b],
         MoveInv(t)'
  PROVE  StoreInv'
<1>1. UNCHANGED <<type, device, memoryview, staged>>
  BY DEF memVars
<1>2. \A u \in Threads \ {t} : Undisturbed(u)
  BY <1>1 DEF Undisturbed
<1> QED
  BY <1>1, <1>2, ThreadStep

\* Its own pins neither.
LEMMA OwnPins ==
  ASSUME NEW t, MoveInv(t), UNCHANGED memVars,
         call'[t].pc \in {"ret", "locked", "leave"}, call'[t].op = call[t].op,
         call'[t].arg = call[t].arg, call'[t].back = call[t].back,
         t \in spillLocks[call[t].arg] => t \in spillLocks'[call[t].arg]
  PROVE  MoveInv(t)'
  BY DEF MoveInv, Unspilling, At

LEMMA Releases ==
  ASSUME NEW a \in Threads \cup Frames, UNCHANGED <<memVars, exposed>>,
         spillLocks' = [b \in Buffers |-> spillLocks[b] \ {a}]
  PROVE  Faithful
<1>1. a # Outside /\ a \in Accessors
  BY NamesDiffer DEF Accessors
<1>2. UNCHANGED <<type, device, memoryview, staged>>
  BY DEF memVars
<1>3. ASSUME NEW b \in Buffers
      PROVE  Content(b)' = Content(b) /\ Holders(b)' = Holders(b) \ {a}
  <2>1. Content(b)' = Content(b)
    BY <1>2 DEF Content
  <2>2. Holders(b)' = Holders(b) \ {a}
    BY <1>1 DEF Holders
  <2> QED
    BY <2>1, <2>2
<1> QED
  BY <1>1, <1>3 DEF Faithful

LEMMA Unchanged ==
  ASSUME UNCHANGED <<memVars, pinVars>> PROVE Faithful
<1>1. UNCHANGED <<type, device, memoryview, staged, exposed, spillLocks>>
  BY DEF memVars, pinVars
<1> QED
  BY <1>1 DEF Faithful, Same, Content, Holders

LEMMA Grants ==
  ASSUME NEW b \in Buffers, NEW a \in Accessors, UNCHANGED memVars, type[b] = "gpu",
         device[b] \in Values, Holders(b)' = Holders(b) \cup {a},
         \A c \in Buffers \ {b} : Holders(c)' = Holders(c)
  PROVE  Faithful
<1>1. UNCHANGED <<type, device, memoryview, staged>>
  BY DEF memVars
<1>2. \A c \in Buffers : Content(c)' = Content(c)
  BY <1>1 DEF Content
<1>3. Content(b) \in Values
  BY NamesDiffer DEF Content
<1>4. OthersSame(b)
  BY <1>2 DEF OthersSame, Same
<1> QED
  BY <1>2, <1>3, <1>4 DEF Faithful

\* A buffer on the device has its content there.
LEMMA DeviceContent ==
  ASSUME IInv, NEW b \in Buffers, type[b] = "gpu"
  PROVE  device[b] \in Values
  BY DEF IInv, BufferInv, TypeOK, Bytes

LEMMA PopsKeep ==
  ASSUME IInv, StoreInv, NEW t \in Threads, PopContext(t), context[t] > 0,
         UNCHANGED <<memVars, exposed>>, ~At(t, "settle"), call'[t] = IdleCall,
         \A u \in Threads \ {t} : call'[u] = call[u]
  PROVE  Good
<1>1. UNCHANGED spillLocks \/ spillLocks' = [b \in Buffers |-> spillLocks[b] \ {t}]
  BY PopContextFields DEF IInv
<1>2. MoveInv(t)'
  BY AtRest DEF IdleCall
<1>3. StoreInv'
  BY <1>1, <1>2, PinStep
<1>4. Faithful
  BY <1>1, Releases, Unchanged DEF pinVars
<1> QED
  BY <1>3, <1>4 DEF Good

LEMMA ExitContextKeeps ==
  ASSUME IInv, StoreInv, NEW t \in Threads, ExitContext(t) PROVE Good
<1>1. call' = call /\ ~At(t, "settle") /\ UNCHANGED <<memVars, exposed>>
  BY DEF ExitContext, At
<1>2. call[t] = IdleCall
  BY IdleIsOutside DEF ExitContext
<1> QED
  BY <1>1, <1>2, PopsKeep DEF ExitContext

LEMMA LeaveCopyKeeps ==
  ASSUME IInv, StoreInv, NEW t \in Threads, LeaveCopy(t) PROVE Good
<1>1. ~At(t, "settle") /\ UNCHANGED <<memVars, exposed>> /\ context[t] > 0
  BY DEF LeaveCopy, At, IInv, PlaceInv
<1>2. call'[t] = IdleCall /\ \A u \in Threads \ {t} : call'[u] = call[u]
  BY NewFrame DEF LeaveCopy, IInv
<1> QED
  BY <1>1, <1>2, PopsKeep DEF LeaveCopy

LEMMA ReleaseFrameKeeps ==
  ASSUME IInv, StoreInv, NEW f \in Frames, ReleaseFrame(f) PROVE Good
<1>1. /\ UNCHANGED <<memVars, exposed, call>>
      /\ spillLocks' = [b \in Buffers |-> spillLocks[b] \ {f}]
  BY DEF ReleaseFrame
<1>2. Faithful
  BY <1>1, Releases
<1>3. \A u \in Threads : Undisturbed(u)
  BY <1>1, NamesDiffer DEF Undisturbed, memVars
<1>4. StoreInv'
  BY <1>1, <1>3, AnyStep DEF memVars
<1> QED
  BY <1>2, <1>4 DEF Good

LEMMA MarkExposedKeeps ==
  ASSUME IInv, StoreInv, NEW t \in Threads, MarkExposed(t) PROVE Good
<1> PICK b : b = call[t].arg
  OBVIOUS
<1>1. /\ UNCHANGED <<memVars, spillLocks>> /\ ~At(t, "settle") /\ At(t, "unspilled")
      /\ exposed' = [exposed EXCEPT ![b] = TRUE] /\ Goto(t, "ret")
  BY DEF MarkExposed, At
<1>2. b \in Buffers /\ type[b] = "gpu"
  BY <1>1, Inside DEF UnderLock, At, IInv, ArgInv
<1>3. /\ call'[t].pc = "ret" /\ call'[t].op = call[t].op /\ call'[t].arg = b
      /\ call'[t].back = call[t].back
      /\ \A u \in Threads \ {t} : call'[u] = call[u]
  BY <1>1, GotoFields DEF IInv, Labels
<1>4. MoveInv(t)'
  BY <1>1, <1>3, OwnPins DEF StoreInv
<1>5. StoreInv'
  BY <1>1, <1>3, <1>4, PinStep
<1>6. Holders(b)' = Holders(b) \cup {Outside} /\ \A c \in Buffers \ {b} : Holders(c)' = Holders(c)
  BY <1>1, <1>2 DEF Holders, IInv, TypeOK
<1>7. Faithful
  BY <1>1, <1>2, <1>6, DeviceContent, Grants DEF Accessors
<1> QED
  BY <1>5, <1>7 DEF Good

LEMMA Pins ==
  ASSUME IInv, NEW b \in Buffers, NEW a \in Threads \cup Frames, UNCHANGED <<memVars, exposed>>,
         type[b] = "gpu", spillLocks' = [spillLocks EXCEPT ![b] = @ \cup {a}]
  PROVE  Faithful
<1>1. Holders(b)' = Holders(b) \cup {a} /\ \A c \in Buffers \ {b} : Holders(c)' = Holders(c)
  BY DEF Holders, IInv, TypeOK
<1> QED
  BY <1>1, DeviceContent, Grants DEF Accessors

LEMMA SpillLockKeeps ==
  ASSUME IInv, StoreInv, NEW t \in Threads, SpillLock(t) PROVE Good
<1> PICK b : b = call[t].arg
  OBVIOUS
<1>1. /\ UNCHANGED <<memVars, exposed>> /\ ~At(t, "settle") /\ At(t, "unspilled")
      /\ spillLocks' = [spillLocks EXCEPT ![b] = @ \cup {t}] /\ Goto(t, "ret")
  BY DEF SpillLock, At
<1>2. b \in Buffers /\ type[b] = "gpu"
  BY <1>1, Inside DEF UnderLock, At, IInv, ArgInv
<1>3. /\ call'[t].pc = "ret" /\ call'[t].op = call[t].op /\ call'[t].arg = b
      /\ call'[t].back = call[t].back
      /\ \A u \in Threads \ {t} : call'[u] = call[u]
  BY <1>1, GotoFields DEF IInv, Labels
<1>4. \A u \in Threads, c \in Buffers : u \in spillLocks[c] => u \in spillLocks'[c]
  BY <1>1 DEF IInv, TypeOK
<1>5. MoveInv(t)'
  BY <1>1, <1>2, <1>3, <1>4, OwnPins DEF StoreInv
<1>6. StoreInv'
  BY <1>1, <1>3, <1>4, <1>5, PinStep
<1>7. Faithful
  BY <1>1, <1>2, Pins
<1> QED
  BY <1>6, <1>7 DEF Good

LEMMA SerializeKeeps ==
  ASSUME IInv, StoreInv, NEW t \in Threads, Serialize(t) PROVE Good
<1> PICK b : b = call[t].arg
  OBVIOUS
<1>1. /\ UNCHANGED <<memVars, exposed>> /\ ~At(t, "settle") /\ At(t, "locked") /\ Return(t)
      /\ ~Spilled(b)
      /\ \/ UNCHANGED spillLocks
         \/ \E f \in Frames : spillLocks' = [spillLocks EXCEPT ![b] = @ \cup {f}]
  BY DEF Serialize, At, FreeFrames
<1>2. b \in Buffers /\ type[b] = "gpu"
  BY <1>1, Inside DEF UnderLock, At, Spilled
<1>3. /\ call'[t].pc \in {"leave", "idle"} /\ call'[t].back = "idle"
      /\ \A u \in Threads \ {t} : call'[u] = call[u]
  BY <1>1, ReturnFields DEF IInv
<1>4. MoveInv(t)'
  BY <1>3, AtRest
<1>5. \A u \in Threads, c \in Buffers : u \in spillLocks[c] => u \in spillLocks'[c]
  BY <1>1 DEF IInv, TypeOK
<1>6. StoreInv'
  BY <1>1, <1>3, <1>4, <1>5, PinStep
<1>7. Faithful
  BY <1>1, <1>2, Pins, Unchanged DEF pinVars
<1> QED
  BY <1>6, <1>7 DEF Good

(* Steps that move the bytes of one buffer. *)

LEMMA Moves ==
  ASSUME IInv, StoreInv, NEW t \in Threads, NEW b \in Buffers, UNCHANGED pinVars,
         lockedBy[b] \in {None, t}, \A u \in Threads \ {t} : call'[u] = call[u],
         \A c \in Buffers \ {b} : /\ type'[c] = type[c] /\ device'[c] = device[c]
                                  /\ memoryview'[c] = memoryview[c] /\ staged'[c] = staged[c],
         At(t, "settle") => call[t].arg = b,
         Content(b)' = Content(b), DataInv(b)', MoveInv(t)'
  PROVE  Good
<1>1. UNCHANGED <<exposed, spillLocks>>
  BY DEF pinVars
<1>2. \A u \in Threads \ {t} : Undisturbed(u)
  BY <1>1, BuffersAreNotNone DEF Undisturbed
<1>3. StoreInv'
  BY <1>2, ThreadStep
<1>4. \A c \in Buffers \ {b} : Content(c)' = Content(c)
  BY DEF Content
<1>5. Faithful
  BY <1>1, <1>4 DEF Faithful, Same, Holders
<1> QED
  BY <1>3, <1>5 DEF Good

\* A buffer whose lock a thread has, and which it is not settling, has no block
\* while it is spilled.
LEMMA NoBlock ==
  ASSUME IInv, StoreInv, NEW t \in Threads, NEW b \in Buffers, lockedBy[b] = t,
         ~At(t, "settle"), type[b] # "gpu"
  PROVE  device[b] = None
  BY Settling

LEMMA EvictKeeps ==
  ASSUME IInv, StoreInv, NEW t \in Threads, NEW b \in Buffers, Evict(t, b) PROVE Good
<1> DEFINE r == [call[t] EXCEPT !.pc = "evict", !.victim = b, !.todo = Without(t, b)]
<1>1. call[t] \in CallType /\ TypeOK
  BY DEF IInv, TypeOK
<1>2. /\ r.pc = "evict" /\ r.victim = b /\ r.op = call[t].op /\ r.arg = call[t].arg
      /\ r.back = call[t].back
  BY <1>1 DEF CallType
<1>3. /\ Frame(t, r) /\ At(t, "scan") /\ UNCHANGED <<type, device, memoryview, pinVars>>
      /\ staged' = [staged EXCEPT ![b] = device[b]] /\ lockedBy[b] \in {None, t} /\ type[b] = "gpu"
  BY DEF Evict, Evictable, CanLock, Spilled
<1> HIDE DEF r
<1>4. call'[t] = r /\ \A u \in Threads \ {t} : call'[u] = call[u]
  BY <1>1, <1>3, NewFrame
<1>5. staged'[b] = device[b] /\ \A c \in Buffers \ {b} : staged'[c] = staged[c]
  BY <1>1, <1>3 DEF TypeOK
<1>6. Content(b)' = Content(b) /\ DataInv(b)'
  BY <1>3, DeviceContent, NamesDiffer DEF Content, DataInv
<1>7. ~At(t, "settle") /\ MoveInv(t) /\ (Unspilling(t)' => Unspilling(t))
  BY <1>2, <1>3, <1>4 DEF StoreInv, At, Unspilling
<1>8. MoveInv(t)'
  BY <1>2, <1>3, <1>4, <1>5, <1>7 DEF MoveInv, At, pinVars
<1> QED
  BY <1>3, <1>4, <1>5, <1>6, <1>7, <1>8, Moves

\* The move to the host of a buffer whose bytes have been copied.
LEMMA ToHostFields ==
  ASSUME IInv, NEW b \in Buffers, ToHost(b), type[b] = "gpu", staged[b] = device[b]
  PROVE  /\ type'[b] = "cpu" /\ device'[b] = None
         /\ memoryview'[b] = device[b] /\ memoryview'[b] # None
         /\ \A c \in Buffers \ {b} : /\ type'[c] = type[c] /\ device'[c] = device[c]
                                     /\ memoryview'[c] = memoryview[c] /\ staged'[c] = staged[c]
         /\ Content(b)' = Content(b) /\ DataInv(b)'
<1>1. device[b] # None
  BY DeviceContent, NamesDiffer
<1>2. /\ type'[b] = "cpu" /\ device'[b] = None /\ memoryview'[b] = device[b]
      /\ \A c \in Buffers \ {b} : /\ type'[c] = type[c] /\ device'[c] = device[c]
                                  /\ memoryview'[c] = memoryview[c] /\ staged'[c] = staged[c]
  BY DEF ToHost, IInv, TypeOK
<1> QED
  BY <1>1, <1>2 DEF Content, DataInv

LEMMA EvictEndKeeps ==
  ASSUME IInv, StoreInv, NEW t \in Threads, EvictEnd(t) PROVE Good
<1> PICK b : b = call[t].victim
  OBVIOUS
<1> DEFINE r == [call[t] EXCEPT !.pc = "scan", !.got = @ + Size[b], !.victim = None,
                                !.todo = IF call[t].got + Size[b] >= need[t]
                                         THEN [c \in {} |-> 0] ELSE @]
<1>1. call[t] \in CallType /\ TypeOK
  BY DEF IInv, TypeOK
<1>2. r.pc = "scan" /\ r.op = call[t].op /\ r.arg = call[t].arg /\ r.back = call[t].back
  BY <1>1 DEF CallType
<1>3. Frame(t, r) /\ At(t, "evict") /\ UNCHANGED pinVars /\ ToHost(b)
  BY DEF EvictEnd
<1> HIDE DEF r
<1>4. call'[t] = r /\ \A u \in Threads \ {t} : call'[u] = call[u]
  BY <1>1, <1>3, NewFrame
<1>5. b \in Buffers /\ lockedBy[b] = t /\ type[b] = "gpu"
  BY <1>1, <1>3 DEF IInv, VictimInv, CallType
<1>6. MoveInv(t) /\ ArgInv(t) /\ ~At(t, "settle") /\ staged[b] = device[b]
  BY <1>3 DEF StoreInv, MoveInv, At, IInv
<1>7. /\ \A c \in Buffers \ {b} : /\ type'[c] = type[c] /\ device'[c] = device[c]
                                  /\ memoryview'[c] = memoryview[c] /\ staged'[c] = staged[c]
      /\ Content(b)' = Content(b) /\ DataInv(b)'
  BY <1>3, <1>5, <1>6, ToHostFields
<1>8. Unspilling(t)' => memoryview'[call[t].arg] = None
  <2> SUFFICES ASSUME Unspilling(t)' PROVE memoryview'[call[t].arg] = None
    OBVIOUS
  <2>1. Unspilling(t)
    BY <1>2, <1>3, <1>4 DEF Unspilling, At
  <2>2. call[t].arg \in Buffers /\ type[call[t].arg] = "cpu" /\ memoryview[call[t].arg] = None
    BY <1>6, <2>1, Inside DEF UnderLock, ArgInv, MoveInv
  <2> QED
    BY <1>5, <1>7, <2>2
<1>9. MoveInv(t)'
  BY <1>2, <1>3, <1>4, <1>6, <1>8 DEF MoveInv, At, pinVars
<1> QED
  BY <1>3, <1>4, <1>5, <1>6, <1>7, <1>9, Moves

\* What Goto leaves of the frame, and what the lock of the argument is worth.
LEMMA LockedGoto ==
  ASSUME IInv, StoreInv, NEW t \in Threads, UnderLock(t), NEW label \in Labels, Goto(t, label)
  PROVE  /\ call[t].arg \in Buffers /\ lockedBy[call[t].arg] = t /\ type[call[t].arg] # "absent"
         /\ call'[t].pc = label /\ call'[t].op = call[t].op /\ call'[t].arg = call[t].arg
         /\ call'[t].back = call[t].back
         /\ \A u \in Threads \ {t} : call'[u] = call[u]
         /\ MoveInv(t) /\ ArgInv(t)
<1>1. TypeOK
  BY DEF IInv
<1> QED
  BY <1>1, GotoFields, Inside DEF IInv, StoreInv

LEMMA PopMemoryviewKeeps ==
  ASSUME IInv, StoreInv, NEW t \in Threads, PopMemoryview(t) PROVE Good
<1> PICK b : b = call[t].arg
  OBVIOUS
<1>1. /\ At(t, "locked") /\ Goto(t, "alloc") /\ UNCHANGED <<type, device, pinVars>>
      /\ type[b] # "gpu" /\ memoryview[b] # None
      /\ staged' = [staged EXCEPT ![b] = memoryview[b]]
      /\ memoryview' = [memoryview EXCEPT ![b] = None]
  BY DEF PopMemoryview, Spilled
<1>2. /\ b \in Buffers /\ lockedBy[b] = t /\ type[b] # "absent"
      /\ call'[t].pc = "alloc" /\ call'[t].op = call[t].op /\ call'[t].arg = b
      /\ call'[t].back = call[t].back
      /\ \A u \in Threads \ {t} : call'[u] = call[u]
      /\ MoveInv(t)
  BY <1>1, LockedGoto DEF UnderLock, Labels, At
<1>3. device[b] = None
  BY <1>1, <1>2, NoBlock DEF At
<1>4. /\ staged'[b] = memoryview[b] /\ memoryview'[b] = None
      /\ \A c \in Buffers \ {b} : memoryview'[c] = memoryview[c] /\ staged'[c] = staged[c]
  BY <1>1, <1>2 DEF IInv, TypeOK
<1>5. Content(b)' = Content(b) /\ DataInv(b)'
  BY <1>1, <1>2, <1>3, <1>4 DEF Content, DataInv
<1>6. MoveInv(t)'
  BY <1>1, <1>2, <1>4 DEF MoveInv, At, pinVars
<1> QED
  BY <1>1, <1>2, <1>4, <1>5, <1>6, Moves DEF At

LEMMA AllocKeeps ==
  ASSUME IInv, StoreInv, NEW t \in Threads, Alloc(t) PROVE Good
<1> PICK b : b = call[t].arg
  OBVIOUS
<1>1. /\ At(t, "alloc") /\ Goto(t, "settle") /\ UNCHANGED <<type, memoryview, pinVars>>
      /\ device' = [device EXCEPT ![b] = staged[b]]
      /\ staged' = [staged EXCEPT ![b] = None]
  BY DEF Alloc
<1>2. Unspilling(t)
  BY <1>1 DEF Unspilling
<1>3. /\ b \in Buffers /\ lockedBy[b] = t /\ type[b] # "absent"
      /\ call'[t].pc = "settle" /\ call'[t].op = call[t].op /\ call'[t].arg = b
      /\ call'[t].back = call[t].back
      /\ \A u \in Threads \ {t} : call'[u] = call[u]
      /\ MoveInv(t) /\ ArgInv(t)
  BY <1>1, <1>2, LockedGoto DEF UnderLock, Labels
<1>4. type[b] = "cpu" /\ staged[b] # None /\ memoryview[b] = None
  BY <1>2, <1>3 DEF ArgInv, MoveInv
<1>5. device[b] = None
  BY <1>1, <1>3, <1>4, NoBlock DEF At
<1>6. /\ device'[b] = staged[b] /\ staged'[b] = None
      /\ \A c \in Buffers \ {b} : device'[c] = device[c] /\ staged'[c] = staged[c]
  BY <1>1, <1>3 DEF IInv, TypeOK
<1>7. Content(b)' = Content(b)
  BY <1>1, <1>4, <1>5, <1>6 DEF Content
<1>8. DataInv(b)'
  BY <1>1, <1>3, <1>4 DEF DataInv, At
<1>9. MoveInv(t)'
  BY <1>1, <1>3 DEF MoveInv, Unspilling, At, pinVars
<1> QED
  BY <1>1, <1>3, <1>6, <1>7, <1>8, <1>9, Moves DEF At

LEMMA SettleKeeps ==
  ASSUME IInv, StoreInv, NEW t \in Threads, Settle(t) PROVE Good
<1> PICK b : b = call[t].arg
  OBVIOUS
<1>1. /\ At(t, "settle") /\ Goto(t, "unspilled")
      /\ UNCHANGED <<device, memoryview, staged, pinVars>>
      /\ type' = [type EXCEPT ![b] = "gpu"]
  BY DEF Settle
<1>2. /\ b \in Buffers /\ lockedBy[b] = t
      /\ call'[t].pc = "unspilled" /\ call'[t].op = call[t].op /\ call'[t].arg = b
      /\ call'[t].back = call[t].back
      /\ \A u \in Threads \ {t} : call'[u] = call[u]
      /\ MoveInv(t) /\ ArgInv(t)
  BY <1>1, LockedGoto DEF UnderLock, Labels, At
<1>3. device[b] # None /\ type[b] = "cpu"
  BY <1>1, <1>2 DEF ArgInv
<1>4. type'[b] = "gpu" /\ \A c \in Buffers \ {b} : type'[c] = type[c]
  BY <1>1, <1>2 DEF IInv, TypeOK
<1>5. Content(b)' = Content(b) /\ DataInv(b)'
  BY <1>1, <1>3, <1>4 DEF Content, DataInv
<1>6. MoveInv(t)'
  BY <1>1, <1>2 DEF MoveInv, Unspilling, At, pinVars
<1> QED
  BY <1>1, <1>2, <1>4, <1>5, <1>6, Moves

LEMMA SpillBeginKeeps ==
  ASSUME IInv, StoreInv, NEW t \in Threads, SpillBegin(t) PROVE Good
<1> PICK b : b = call[t].arg
  OBVIOUS
<1>1. /\ At(t, "locked") /\ Goto(t, "dtoh") /\ UNCHANGED <<type, device, memoryview, pinVars>>
      /\ type[b] = "gpu" /\ staged' = [staged EXCEPT ![b] = device[b]]
  BY DEF SpillBegin, Spilled
<1>2. /\ b \in Buffers /\ lockedBy[b] = t
      /\ call'[t].pc = "dtoh" /\ call'[t].op = call[t].op /\ call'[t].arg = b
      /\ call'[t].back = call[t].back
      /\ \A u \in Threads \ {t} : call'[u] = call[u]
      /\ MoveInv(t)
  BY <1>1, LockedGoto DEF UnderLock, Labels, At
<1>3. staged'[b] = device[b] /\ \A c \in Buffers \ {b} : staged'[c] = staged[c]
  BY <1>1, <1>2 DEF IInv, TypeOK
<1>4. Content(b)' = Content(b) /\ DataInv(b)'
  BY <1>1, <1>2, DeviceContent, NamesDiffer DEF Content, DataInv
<1>5. MoveInv(t)'
  BY <1>1, <1>2, <1>3 DEF MoveInv, Unspilling, At, pinVars
<1> QED
  BY <1>1, <1>2, <1>3, <1>4, <1>5, Moves DEF At

LEMMA SpillEndKeeps ==
  ASSUME IInv, StoreInv, NEW t \in Threads, SpillEnd(t) PROVE Good
<1> PICK b : b = call[t].arg
  OBVIOUS
<1>1. At(t, "dtoh") /\ Goto(t, "host") /\ UNCHANGED pinVars /\ ToHost(b)
  BY DEF SpillEnd
<1>2. /\ b \in Buffers /\ lockedBy[b] = t
      /\ call'[t].pc = "host" /\ call'[t].op = call[t].op /\ call'[t].arg = b
      /\ call'[t].back = call[t].back
      /\ \A u \in Threads \ {t} : call'[u] = call[u]
      /\ MoveInv(t) /\ ArgInv(t)
  BY <1>1, LockedGoto DEF UnderLock, Labels, At
<1>3. type[b] = "gpu" /\ staged[b] = device[b]
  BY <1>1, <1>2 DEF ArgInv, MoveInv
<1>4. /\ device'[b] = None /\ memoryview'[b] # None
      /\ \A c \in Buffers \ {b} : /\ type'[c] = type[c] /\ device'[c] = device[c]
                                  /\ memoryview'[c] = memoryview[c] /\ staged'[c] = staged[c]
      /\ Content(b)' = Content(b) /\ DataInv(b)'
  BY <1>1, <1>2, <1>3, ToHostFields
<1>5. MoveInv(t)'
  BY <1>1, <1>2, <1>4 DEF MoveInv, Unspilling, At, pinVars
<1> QED
  BY <1>1, <1>2, <1>4, <1>5, Moves DEF At

(* The step that loses the bytes that were under way. *)

GivesUp(t) ==
  /\ StoreInv' /\ Loses
  /\ call[t].back = "alloc" /\ ScanDone(t) /\ call[t].got = 0
  /\ \A b \in Buffers : Content(b) # Lost /\ Content(b)' = Lost => call[t].arg = b

LEMMA GiveUpKeeps ==
  ASSUME IInv, StoreInv, NEW t \in Threads, GiveUp(t) PROVE Good \/ GivesUp(t)
<1> PICK b : b = call[t].arg
  OBVIOUS
<1>1. /\ At(t, "scan") /\ ~At(t, "settle") /\ ScanDone(t) /\ call[t].got = 0 /\ Return(t)
      /\ UNCHANGED <<type, device, memoryview, pinVars>>
  BY DEF GiveUp, ScanDone, At
<1>2. CASE call[t].back # "alloc"
  <2>1. UNCHANGED <<memVars, pinVars>>
    BY <1>1, <1>2 DEF GiveUp, memVars
  <2> QED
    BY <1>1, <2>1, ReturnUnseen
<1>3. CASE call[t].back = "alloc"
  <2>1. Unspilling(t)
    BY <1>1, <1>3 DEF Unspilling, At
  <2>2. /\ b \in Buffers /\ lockedBy[b] = t /\ type[b] = "cpu" /\ Spillable(b)
        /\ staged[b] # None /\ memoryview[b] = None
    BY <2>1, Inside DEF UnderLock, IInv, ArgInv, StoreInv, MoveInv
  <2>3. device[b] = None
    BY <1>1, <2>2, NoBlock
  <2>4. staged[b] \in Values
    BY <2>2 DEF IInv, TypeOK, Bytes
  <2>5. staged'[b] = None /\ \A c \in Buffers \ {b} : staged'[c] = staged[c]
    BY <1>3, <2>2 DEF GiveUp, IInv, TypeOK
  <2>6. /\ call'[t].pc \in {"leave", "idle"} /\ call'[t].back = "idle"
        /\ \A u \in Threads \ {t} : call'[u] = call[u]
    BY <1>1, ReturnFields DEF IInv
  <2>7. MoveInv(t)'
    BY <2>6, AtRest
  <2>8. UNCHANGED <<exposed, spillLocks>>
    BY <1>1 DEF pinVars
  <2>9. \A u \in Threads \ {t} : Undisturbed(u)
    BY <1>1, <2>2, <2>5, <2>6, <2>8 DEF Undisturbed
  <2>10. StoreInv'
    BY <1>1, <2>7, <2>9, ThreadStep
  <2>11. Content(b) \in Values /\ Content(b)' = Lost
    BY <1>1, <2>2, <2>3, <2>4, <2>5 DEF Content
  <2>12. \A c \in Buffers \ {b} : Content(c)' = Content(c)
    BY <1>1, <2>5 DEF Content
  <2>13. Holders(b) = {} /\ \A c \in Buffers : Holders(c)' = Holders(c)
    BY <2>2, <2>8 DEF Holders, Spillable
  <2>14. Loses
    BY <2>2, <2>11, <2>12, <2>13 DEF Loses, OthersSame, Same
  <2> QED
    BY <1>1, <1>3, <2>10, <2>12, <2>14 DEF GivesUp
<1> QED
  BY <1>2, <1>3

(* Steps that make a buffer. *)

LEMMA NewContent ==
  ASSUME IInv, StoreInv, NEW t \in Threads, NEW c \in Buffers, NEW v \in Values,
         type[c] = "absent", Content(c)' = v, DataInv(c)', MoveInv(t)',
         UNCHANGED spillLocks, \A b \in Buffers \ {c} : exposed'[b] = exposed[b],
         \A u \in Threads \ {t} : call'[u] = call[u],
         \A b \in Buffers \ {c} : /\ type'[b] = type[b] /\ device'[b] = device[b]
                                  /\ memoryview'[b] = memoryview[b] /\ staged'[b] = staged[b],
         ~At(t, "settle")
  PROVE  Good
<1>1. lockedBy[c] = None
  BY AbsentIsFree
<1>2. \A u \in Threads \ {t} : Undisturbed(u)
  BY <1>1, BuffersAreNotNone DEF Undisturbed
<1>3. StoreInv'
  BY <1>2, ThreadStep
<1>4. OthersSame(c)
  BY DEF OthersSame, Same, Content, Holders
<1>5. Holders(c)' \in SUBSET Accessors
  BY DEF Holders, IInv, TypeOK, Accessors
<1>6. Content(c) = Absent
  BY DEF Content
<1>7. Faithful
  BY <1>4, <1>5, <1>6 DEF Faithful
<1> QED
  BY <1>3, <1>7 DEF Good

LEMMA StartCreateHostKeeps ==
  ASSUME IInv, StoreInv, NEW t \in Threads, NEW b \in Buffers, NEW v \in Values,
         StartCreateHost(t, b, v)
  PROVE  Good
<1> DEFINE r == [IdleCall EXCEPT !.pc = "register", !.op = "createHost", !.dst = b]
<1>1. r.pc = "register" /\ r.back = "idle"
  BY DEF IdleCall
<1>2. /\ Frame(t, r) /\ ~At(t, "settle") /\ type[b] = "absent" /\ UNCHANGED <<device, staged, pinVars>>
      /\ type' = [type EXCEPT ![b] = "cpu"] /\ memoryview' = [memoryview EXCEPT ![b] = v]
  BY DEF StartCreateHost, Start, Free, At
<1> HIDE DEF r
<1>3. call'[t] = r /\ \A u \in Threads \ {t} : call'[u] = call[u]
  BY <1>2, NewFrame DEF IInv
<1>4. /\ type'[b] = "cpu" /\ memoryview'[b] = v
      /\ \A c \in Buffers \ {b} : type'[c] = type[c] /\ memoryview'[c] = memoryview[c]
  BY <1>2 DEF IInv, TypeOK
<1>5. device'[b] = None
  BY <1>2 DEF StoreInv, DataInv
<1>6. Content(b)' = v /\ DataInv(b)'
  BY <1>4, <1>5, NamesDiffer DEF Content, DataInv
<1>7. MoveInv(t)'
  BY <1>1, <1>3, AtRest
<1> QED
  BY <1>2, <1>3, <1>4, <1>6, <1>7, NewContent DEF pinVars

\* The buffer that a call is about to make.
LEMMA About ==
  ASSUME IInv, NEW t \in Threads, call[t].pc \in {"new", "locked", "host"},
         At(t, "new") \/ call[t].op = "copyHost"
  PROVE  call[t].dst \in Buffers /\ type[call[t].dst] = "absent"
  BY DEF IInv, TypeOK, CallType, DstInv, Made, At

LEMMA NewBlockKeeps ==
  ASSUME IInv, StoreInv, NEW t \in Threads, NEW v \in Values, NewBlock(t, v) PROVE Good
<1> PICK c : c = call[t].dst
  OBVIOUS
<1>1. /\ At(t, "new") /\ ~At(t, "settle") /\ Goto(t, "register")
      /\ UNCHANGED <<memoryview, staged, spillLocks>>
      /\ device' = [device EXCEPT ![c] = v] /\ type' = [type EXCEPT ![c] = "gpu"]
      /\ exposed' = [exposed EXCEPT ![c] = call[t].op = "createExposed"]
  BY DEF NewBlock, At
<1>2. c \in Buffers /\ type[c] = "absent"
  BY <1>1, About DEF At
<1>3. /\ call'[t].pc = "register" /\ call'[t].op = call[t].op /\ call'[t].arg = call[t].arg
      /\ call'[t].back = call[t].back
      /\ \A u \in Threads \ {t} : call'[u] = call[u]
  BY <1>1, GotoFields DEF IInv, Labels
<1>4. type'[c] = "gpu" /\ device'[c] = v
  BY <1>1, <1>2 DEF IInv, TypeOK
<1>5. \A b \in Buffers \ {c} : type'[b] = type[b] /\ device'[b] = device[b] /\ exposed'[b] = exposed[b]
  BY <1>1, <1>2 DEF IInv, TypeOK
<1>6. Content(c)' = v /\ DataInv(c)'
  BY <1>4, NamesDiffer DEF Content, DataInv
<1>7. MoveInv(t)'
  BY <1>1, <1>3 DEF StoreInv, MoveInv, Unspilling, At
<1> QED
  BY <1>1, <1>2, <1>3, <1>5, <1>6, <1>7, NewContent

\* A copy through host memory has the bytes of the view.
LEMMA CopyFields ==
  ASSUME IInv, StoreInv, NEW t \in Threads, NEW bytes \in Values, NEW c, c = call[t].dst,
         call[t].pc \in {"locked", "host"}, call[t].op = "copyHost", ReturnView(t, bytes)
  PROVE  /\ c \in Buffers /\ type[c] = "absent" /\ type'[c] = "cpu"
         /\ Content(c)' = bytes /\ DataInv(c)'
         /\ \A b \in Buffers \ {c} : type'[b] = type[b] /\ memoryview'[b] = memoryview[b]
<1>1. /\ type' = [type EXCEPT ![c] = "cpu"] /\ memoryview' = [memoryview EXCEPT ![c] = bytes]
      /\ UNCHANGED device
  BY DEF ReturnView
<1>2. c \in Buffers /\ type[c] = "absent"
  BY About
<1>3. /\ type'[c] = "cpu" /\ memoryview'[c] = bytes
      /\ \A b \in Buffers \ {c} : type'[b] = type[b] /\ memoryview'[b] = memoryview[b]
  BY <1>1, <1>2 DEF IInv, TypeOK
<1>4. device'[c] = None
  BY <1>1, <1>2 DEF StoreInv, DataInv
<1>5. Content(c)' = bytes /\ DataInv(c)'
  BY <1>3, <1>4, NamesDiffer DEF Content, DataInv
<1> QED
  BY <1>2, <1>3, <1>5

LEMMA ReturnViewKeeps ==
  ASSUME IInv, StoreInv, NEW t \in Threads, NEW bytes, call[t].pc \in {"locked", "host"},
         ToView(t) => bytes \in Values, ReturnView(t, bytes)
  PROVE  Good
<1>1. UNCHANGED <<device, staged, pinVars>> /\ ~At(t, "settle")
  BY DEF ReturnView, At
<1>2. CASE call[t].op # "copyHost"
  <2>1. UNCHANGED <<memVars, pinVars>> /\ Return(t)
    BY <1>2 DEF ReturnView, memVars
  <2> QED
    BY <1>1, <2>1, ReturnUnseen
<1>3. CASE call[t].op = "copyHost"
  <2> PICK c : c = call[t].dst
    OBVIOUS
  <2>1. Goto(t, "register") /\ bytes \in Values
    BY <1>3 DEF ReturnView, ToView
  <2>2. /\ c \in Buffers /\ type[c] = "absent" /\ Content(c)' = bytes /\ DataInv(c)'
        /\ \A b \in Buffers \ {c} : type'[b] = type[b] /\ memoryview'[b] = memoryview[b]
    BY <1>3, <2>1, CopyFields
  <2>3. /\ call'[t].pc = "register" /\ call'[t].op = "copyHost" /\ call'[t].back = call[t].back
        /\ \A u \in Threads \ {t} : call'[u] = call[u]
    BY <1>3, <2>1, GotoFields DEF IInv, Labels
  <2>4. MoveInv(t)'
    BY <1>3, <2>3 DEF StoreInv, MoveInv, Unspilling, At
  <2> QED
    BY <1>1, <2>1, <2>2, <2>3, <2>4, NewContent DEF pinVars
<1> QED
  BY <1>2, <1>3

\* The bytes of the view that a call with the lock returns.
LEMMA HostBytes ==
  ASSUME IInv, StoreInv, NEW t \in Threads, At(t, "host"), ToView(t)
  PROVE  Content(call[t].arg) = memoryview[call[t].arg] /\ memoryview[call[t].arg] \in Values
<1>1. call[t].arg \in Buffers /\ type[call[t].arg] # "absent"
  BY Inside DEF UnderLock, At
<1>2. device[call[t].arg] = None /\ memoryview[call[t].arg] # None
  BY DEF StoreInv, MoveInv
<1> QED
  BY <1>1, <1>2 DEF Content, IInv, TypeOK, Bytes

LEMMA DeviceBytes ==
  ASSUME IInv, NEW b \in Buffers, type[b] = "gpu"
  PROVE  Content(b) = device[b] /\ device[b] \in Values
BY DeviceContent, NamesDiffer DEF Content

LEMMA ReturnHostKeeps ==
  ASSUME IInv, StoreInv, NEW t \in Threads, ReturnHost(t) PROVE Good
<1>1. At(t, "host") /\ ReturnView(t, memoryview[call[t].arg])
  BY DEF ReturnHost
<1>2. ToView(t) => memoryview[call[t].arg] \in Values
  BY <1>1, HostBytes
<1> QED
  BY <1>1, <1>2, ReturnViewKeeps DEF At

LEMMA ViewPinnedKeeps ==
  ASSUME IInv, StoreInv, NEW t \in Threads, ViewPinned(t) PROVE Good
<1>1. At(t, "locked") /\ type[call[t].arg] = "gpu" /\ ReturnView(t, device[call[t].arg])
  BY DEF ViewPinned, Spilled
<1>2. call[t].arg \in Buffers
  BY <1>1, Inside DEF UnderLock, At
<1>3. device[call[t].arg] \in Values
  BY <1>1, <1>2, DeviceContent
<1> QED
  BY <1>1, <1>3, ReturnViewKeeps DEF At

(* Steps of the users. *)

LEMMA WriteKeeps ==
  ASSUME IInv, StoreInv, NEW a \in Threads \cup {Outside}, NEW b \in Buffers, NEW v \in Values,
         Write(a, b, v)
  PROVE  Good
<1>1. /\ b \in held[a] /\ device' = [device EXCEPT ![b] = v]
      /\ UNCHANGED <<type, memoryview, staged, pinVars, call>>
  BY DEF Write
<1>2. BufferInv(b)
  BY DEF IInv
<1>3. a \in Holders(b) /\ ~Spillable(b)
  BY <1>1, <1>2 DEF BufferInv, Holders, Spillable
<1>4. type[b] = "gpu"
  BY <1>2, <1>3 DEF BufferInv
<1>5. device'[b] = v /\ \A c \in Buffers \ {b} : device'[c] = device[c]
  BY <1>1 DEF IInv, TypeOK
<1>6. UNCHANGED <<exposed, spillLocks>>
  BY <1>1 DEF pinVars
<1>7. \A u \in Threads : Undisturbed(u)
  BY <1>1, <1>3, <1>5, <1>6 DEF Undisturbed
<1>8. DataInv(b)'
  BY <1>1, <1>4 DEF DataInv
<1>9. StoreInv'
  <2>1. \A c \in Buffers : DataInv(c)' \/ (type'[c] = type[c] /\ device'[c] = device[c])
    BY <1>1, <1>5, <1>8
  <2> QED
    BY <1>7, <2>1, AnyStep
<1>10. Content(b) \in Values /\ Content(b)' = v
  BY <1>1, <1>4, <1>5, DeviceContent, NamesDiffer DEF Content
<1>11. Holders(b)' = Holders(b)
  BY <1>6 DEF Holders
<1>12. OthersSame(b)
  BY <1>1, <1>5, <1>6 DEF OthersSame, Same, Content, Holders
<1>13. a \in Accessors
  BY DEF Accessors
<1>14. Faithful
  BY <1>3, <1>10, <1>11, <1>12, <1>13 DEF Faithful
<1> QED
  BY <1>9, <1>14 DEF Good

LEMMA DropKeeps ==
  ASSUME IInv, StoreInv, NEW b \in Buffers, Drop(b) PROVE Good
<1>1. /\ type[b] # "absent" /\ ~Referenced(b) /\ UNCHANGED <<staged, call>>
      /\ type' = [type EXCEPT ![b] = "absent"] /\ device' = [device EXCEPT ![b] = None]
      /\ memoryview' = [memoryview EXCEPT ![b] = None]
      /\ exposed' = [exposed EXCEPT ![b] = FALSE] /\ spillLocks' = [spillLocks EXCEPT ![b] = {}]
  BY DEF Drop, Existing
<1>2. /\ type'[b] = "absent" /\ device'[b] = None /\ exposed'[b] = FALSE /\ spillLocks'[b] = {}
  BY <1>1 DEF IInv, TypeOK
<1>3. \A c \in Buffers \ {b} : /\ type'[c] = type[c] /\ device'[c] = device[c]
                               /\ memoryview'[c] = memoryview[c] /\ staged'[c] = staged[c]
                               /\ exposed'[c] = exposed[c] /\ spillLocks'[c] = spillLocks[c]
  BY <1>1 DEF IInv, TypeOK
<1>4. \A u \in Threads : b # call[u].arg /\ b # call[u].victim
  BY <1>1 DEF Referenced
<1>5. \A u \in Threads : lockedBy[b] # u
  BY <1>4 DEF IInv, LockInv
<1>6. \A u \in Threads : Undisturbed(u)
  BY <1>1, <1>3, <1>4, <1>5 DEF Undisturbed
<1>7. DataInv(b)'
  BY <1>2 DEF DataInv
<1>8. StoreInv'
  <2>1. \A c \in Buffers : DataInv(c)' \/ (type'[c] = type[c] /\ device'[c] = device[c])
    BY <1>3, <1>7
  <2> QED
    BY <1>6, <2>1, AnyStep
<1>9. Content(b)' = Absent /\ Holders(b)' = {}
  BY <1>2 DEF Content, Holders
<1>10. Content(b) # Absent
  BY <1>1, NamesDiffer DEF Content, IInv, TypeOK, Bytes
<1>11. OthersSame(b)
  BY <1>3 DEF OthersSame, Same, Content, Holders
<1>12. Faithful
  BY <1>9, <1>10, <1>11 DEF Faithful
<1> QED
  BY <1>8, <1>12 DEF Good

(* The whole specification. *)

LEMMA InitStore == ASSUME Init PROVE StoreInv /\ Store!StoreInit
<1>1. PICK content \in [Initial -> Values], resident \in SUBSET Initial :
        /\ device = [b \in Buffers |-> IF b \in resident THEN content[b] ELSE None]
        /\ memoryview = [b \in Buffers |->
                           IF b \in Initial \ resident THEN content[b] ELSE None]
        /\ type = [b \in Buffers |-> IF b \in resident THEN "gpu"
                                     ELSE IF b \in Initial THEN "cpu" ELSE "absent"]
  BY DEF Init
<1>2. /\ call = [t \in Threads |-> IdleCall]
      /\ spillLocks = [b \in Buffers |-> {}] /\ exposed = [b \in Buffers |-> FALSE]
  BY DEF Init
<1>3. \A t \in Threads : MoveInv(t)
  BY <1>2 DEF MoveInv, Unspilling, At, IdleCall
<1>4. \A b \in Buffers : DataInv(b)
  BY <1>1 DEF DataInv
<1>5. ASSUME NEW b \in Buffers PROVE Content(b) \in Values \cup {Absent}
  <2>1. CASE b \in resident
    <3>1. type[b] = "gpu" /\ device[b] = content[b] /\ content[b] \in Values
      BY <1>1, <2>1
    <3> QED
      BY <3>1, NamesDiffer DEF Content
  <2>2. CASE b \in Initial \ resident
    <3>1. type[b] = "cpu" /\ device[b] = None /\ memoryview[b] = content[b] /\ content[b] \in Values
      BY <1>1, <2>2
    <3> QED
      BY <3>1, NamesDiffer DEF Content
  <2>3. CASE b \notin Initial
    <3>1. type[b] = "absent"
      BY <1>1, <2>3
    <3> QED
      BY <3>1 DEF Content
  <2> QED
    BY <2>1, <2>2, <2>3
<1>6. Store!StoreInit
  BY <1>2, <1>5 DEF Store!StoreInit
<1> QED
  BY <1>3, <1>4, <1>6 DEF StoreInv

LEMMA StepKeeps ==
  ASSUME IInv, StoreInv, NEW t \in Threads, Step(t) PROVE Good \/ GivesUp(t)
BY MeasureLimitKeeps, ScansKeep, EvictKeeps, EvictEndKeeps, ResumeKeeps, GiveUpKeeps,
   LocksKeep, PopMemoryviewKeeps, AllocKeeps, SettleKeeps, MarkExposedKeeps, SpillLockKeeps,
   ReturnPtrKeeps, SpillBeginKeeps, SpillEndKeeps, OnHostKeeps, ReturnHostKeeps,
   ViewPinnedKeeps, SerializeKeeps, NewBlockKeeps, RegisterKeeps, LeaveCopyKeeps DEF Step

LEMMA BeginKeeps ==
  ASSUME IInv, StoreInv, NEW t \in Threads, Begin(t) PROVE Good
BY EnterContextKeeps, ExitContextKeeps, StartsKeep, StartCreateHostKeeps DEF Begin

LEMMA UsersKeep ==
  ASSUME IInv, StoreInv, Users PROVE Good
BY WriteKeeps, ReleaseFrameKeeps, DropKeeps DEF Users

LEMMA StutterKeeps ==
  ASSUME IInv, StoreInv, UNCHANGED vars PROVE Good
<1>1. UNCHANGED <<memVars, pinVars, type, device, memoryview, staged, spillLocks, call>>
  BY DEF vars, memVars, pinVars
<1>2. \A u \in Threads : Undisturbed(u)
  BY <1>1 DEF Undisturbed
<1>3. StoreInv'
  BY <1>1, <1>2, AnyStep
<1> QED
  BY <1>1, <1>3, Unchanged DEF Good

LEMMA NextKeeps ==
  ASSUME IInv, StoreInv, [Next]_vars PROVE Good \/ \E t \in Threads : GivesUp(t)
BY StepKeeps, BeginKeeps, UsersKeep, StutterKeeps DEF Next

\* In every reachable state the bytes of a buffer are where StoreInv has them.
THEOREM BytesAreSomewhere == Spec => []StoreInv
<1>1. Init => StoreInv
  BY InitStore
<1>2. IInv /\ StoreInv /\ [Next]_vars => StoreInv'
  BY NextKeeps DEF Good, GivesUp
<1>3. Spec => []IInv
  BY InvariantHolds
<1> QED
  BY <1>1, <1>2, <1>3, PTL DEF Spec

\* Moving buffers between the host and the device is invisible: every behaviour
\* of the spilling buffers is one of the store of contents, whatever threads
\* access, view, evict, unspill, copy and drop, and in whatever order.
THEOREM SpillingIsInvisible == Spec => ImplementsStore
<1>1. Init => Store!StoreInit
  BY InitStore
<1>2. IInv /\ StoreInv /\ [Next]_vars => [Store!StoreNext]_(Store!storeVars)
  BY NextKeeps, FaithfulStep, LosingStep DEF Good, GivesUp
<1>3. Spec => []IInv
  BY InvariantHolds
<1>4. Spec => []StoreInv
  BY BytesAreSomewhere
<1> QED
  BY <1>1, <1>2, <1>3, <1>4, PTL DEF Spec, ImplementsStore, Store!StoreSpec

\* Content is destroyed by nothing but the MemoryError of its own unspill.
THEOREM OnlyMemoryErrorLoses == Spec => LostOnlyByMemoryError
<1> DEFINE A == \A b \in Buffers :
       Content(b) # Lost /\ Content(b)' = Lost
       => \E t \in Threads : /\ call[t].arg = b /\ call[t].back = "alloc"
                              /\ ScanDone(t) /\ call[t].got = 0
<1>1. IInv /\ StoreInv /\ [Next]_vars => A
  <2> SUFFICES ASSUME IInv, StoreInv, [Next]_vars PROVE A
    OBVIOUS
  <2>1. CASE Good
    BY <2>1, FaithfulKeeps DEF Good
  <2>2. ASSUME NEW t \in Threads, GivesUp(t) PROVE A
    BY <2>2 DEF GivesUp
  <2> QED
    BY <2>1, <2>2, NextKeeps
<1>2. Spec => []IInv
  BY InvariantHolds
<1>3. Spec => []StoreInv
  BY BytesAreSomewhere
<1> QED
  BY <1>1, <1>2, <1>3, PTL DEF Spec, LostOnlyByMemoryError

(* Copies. *)

Appears(c) == type[c] = "absent" /\ type'[c] # "absent"

\* The steps of a call that makes a buffer.
MakesOne(t) == \/ At(t, "new") /\ \E v \in Values : NewBlock(t, v)
               \/ /\ call[t].op = "copyHost"
                  /\ ReturnHost(t) \/ ViewPinned(t)

LEMMA OnlyTheseMake ==
  ASSUME IInv, StoreInv, NEW t \in Threads, Step(t), NEW c \in Buffers, Appears(c)
  PROVE  MakesOne(t)
<1>1. TypeOK
  BY DEF IInv
<1>2. ~(UNCHANGED type)
  BY DEF Appears
<1>3. ~(\E b \in Buffers : type[b] # "absent" /\ ToHost(b))
  BY <1>1 DEF ToHost, TypeOK, Appears
<1>4. ~EvictEnd(t)
  <2> SUFFICES ASSUME EvictEnd(t) PROVE FALSE
    OBVIOUS
  <2>1. call[t].victim \in Buffers /\ type[call[t].victim] = "gpu" /\ ToHost(call[t].victim)
    BY DEF EvictEnd, IInv, VictimInv, TypeOK, CallType
  <2> QED
    BY <1>3, <2>1
<1>5. ~SpillEnd(t)
  <2> SUFFICES ASSUME SpillEnd(t) PROVE FALSE
    OBVIOUS
  <2>1. At(t, "dtoh") /\ ToHost(call[t].arg)
    BY DEF SpillEnd
  <2>2. call[t].arg \in Buffers /\ type[call[t].arg] # "absent"
    BY <2>1, Inside DEF UnderLock, At
  <2> QED
    BY <1>3, <2>1, <2>2
<1>6. ~Settle(t)
  <2> SUFFICES ASSUME Settle(t) PROVE FALSE
    OBVIOUS
  <2>1. At(t, "settle") /\ type' = [type EXCEPT ![call[t].arg] = "gpu"]
    BY DEF Settle
  <2>2. call[t].arg \in Buffers /\ type[call[t].arg] # "absent"
    BY <2>1, Inside DEF UnderLock, At
  <2> QED
    BY <1>1, <2>1, <2>2 DEF TypeOK, Appears
<1>7. ~(\/ MeasureLimit(t) \/ Snapshot(t) \/ \E b \in Buffers : ScanSkip(t, b) \/ Evict(t, b)
        \/ Resume(t) \/ ScanAgain(t) \/ GiveUp(t) \/ Acquire(t) \/ OnDevice(t))
  BY <1>2 DEF MeasureLimit, Snapshot, ScanSkip, Evict, Resume, ScanAgain, GiveUp, Acquire,
              OnDevice, memVars
<1>8. ~(\/ PopMemoryview(t) \/ Raises(t) \/ Alloc(t) \/ AllocFails(t) \/ MarkExposed(t)
        \/ SpillLock(t) \/ UnspillEnd(t) \/ ReturnPtr(t) \/ SpillBegin(t))
  BY <1>2 DEF PopMemoryview, Raises, Alloc, AllocFails, MarkExposed, SpillLock, UnspillEnd,
              ReturnPtr, SpillBegin, memVars
<1>9. ~(OnHost(t) \/ Serialize(t) \/ Register(t) \/ LeaveCopy(t))
  BY <1>2 DEF OnHost, Serialize, Register, LeaveCopy, memVars
<1>10. \/ \E v \in Values : NewBlock(t, v)
       \/ ReturnHost(t) \/ ViewPinned(t)
  BY <1>4, <1>5, <1>6, <1>7, <1>8, <1>9 DEF Step
<1>11. ReturnHost(t) \/ ViewPinned(t) => call[t].op = "copyHost"
  BY <1>2 DEF ReturnHost, ViewPinned, ReturnView
<1>12. \A v \in Values : NewBlock(t, v) => At(t, "new")
  BY DEF NewBlock
<1> QED
  BY <1>10, <1>11, <1>12 DEF MakesOne

\* What it makes is its own new buffer, and a copy has the content of its source.
LEMMA MakesItsOwn ==
  ASSUME IInv, StoreInv, NEW t \in Threads, MakesOne(t), NEW c \in Buffers, Appears(c)
  PROVE  /\ c = call[t].dst
         /\ call[t].op \in {"copyHost", "copyDevice"} => Content(c)' = Content(call[t].arg)
<1> PICK b : b = call[t].arg
  OBVIOUS
<1>1. ASSUME NEW v \in Values, NewBlock(t, v), At(t, "new")
      PROVE  /\ c = call[t].dst
             /\ call[t].op \in {"copyHost", "copyDevice"} => Content(c)' = Content(b)
  <2>1. /\ device' = [device EXCEPT ![call[t].dst] = v]
        /\ type' = [type EXCEPT ![call[t].dst] = "gpu"]
        /\ call[t].op = "copyDevice" => v = device[b]
    BY <1>1 DEF NewBlock
  <2>2. c = call[t].dst
    BY <2>1 DEF Appears, IInv, TypeOK
  <2>3. Content(c)' = v
    BY <2>1, <2>2, NamesDiffer DEF Content, IInv, TypeOK
  <2>4. call[t].op # "copyHost"
    BY <1>1 DEF StoreInv, MoveInv
  <2>5. ASSUME call[t].op = "copyDevice" PROVE Content(b) = device[b]
    <3>1. b # None /\ t \in spillLocks[b]
      BY <1>1, <2>5 DEF StoreInv, MoveInv
    <3>2. b \in Buffers /\ BufferInv(b)
      BY <3>1 DEF IInv, TypeOK, CallType
    <3>3. type[b] = "gpu"
      BY <3>1, <3>2 DEF BufferInv, Spillable
    <3> QED
      BY <3>2, <3>3, DeviceBytes
  <2> QED
    BY <2>1, <2>2, <2>3, <2>4, <2>5
<1>2. ASSUME NEW bytes \in Values, call[t].pc \in {"locked", "host"}, call[t].op = "copyHost",
             ReturnView(t, bytes), Content(b) = bytes
      PROVE  c = call[t].dst /\ Content(c)' = Content(b)
  <2>1. c = call[t].dst
    <3> PICK d : d = call[t].dst
      OBVIOUS
    <3>1. \A x \in Buffers \ {d} : type'[x] = type[x]
      BY <1>2, CopyFields
    <3> QED
      BY <3>1 DEF Appears
  <2> QED
    BY <1>2, <2>1, CopyFields
<1>3. ASSUME ReturnHost(t), call[t].op = "copyHost"
      PROVE  c = call[t].dst /\ Content(c)' = Content(b)
  <2>1. At(t, "host") /\ ToView(t) /\ ReturnView(t, memoryview[b])
    BY <1>3 DEF ReturnHost, ToView
  <2> QED
    BY <1>2, <1>3, <2>1, HostBytes DEF At
<1>4. ASSUME ViewPinned(t), call[t].op = "copyHost"
      PROVE  c = call[t].dst /\ Content(c)' = Content(b)
  <2>1. At(t, "locked") /\ type[b] = "gpu" /\ ReturnView(t, device[b])
    BY <1>4 DEF ViewPinned, Spilled
  <2>2. b \in Buffers
    BY <2>1, Inside DEF UnderLock, At
  <2> QED
    BY <1>2, <1>4, <2>1, <2>2, DeviceBytes DEF At
<1> QED
  BY <1>1, <1>3, <1>4 DEF MakesOne

\* The buffer of a copy appears in the copy's own step only.
LEMMA CopyIsExact ==
  ASSUME IInv, StoreInv, [Next]_vars, NEW t \in Threads,
         call[t].op \in {"copyHost", "copyDevice"}, NEW c \in Buffers, c = call[t].dst, Appears(c)
  PROVE  Content(c)' = Content(call[t].arg)
<1>1. \A u \in Threads \ {t} : call[u].dst # c
  BY BuffersAreNotNone DEF IInv, DstInv
<1>2. TypeOK
  BY DEF IInv
<1>3. ASSUME NEW u \in Threads, Step(u) PROVE Content(c)' = Content(call[t].arg)
  <2>1. MakesOne(u)
    BY <1>1, <1>3, OnlyTheseMake
  <2>2. c = call[u].dst
    BY <1>1, <2>1, MakesItsOwn
  <2>3. u = t
    BY <1>1, <2>2
  <2> QED
    BY <1>1, <2>1, <2>3, MakesItsOwn
<1>4. ASSUME NEW u \in Threads, Begin(u) PROVE FALSE
  <2>1. ASSUME NEW b \in Buffers, NEW v \in Values, StartCreateHost(u, b, v) PROVE FALSE
    <3>1. b # c /\ type' = [type EXCEPT ![b] = "cpu"]
      BY <2>1 DEF StartCreateHost, Free
    <3> QED
      BY <1>1, <1>2, <3>1 DEF Appears, TypeOK
  <2>2. UNCHANGED type
    BY <1>4, <2>1 DEF Begin, EnterContext, ExitContext, StartToLimit, StartAccess, StartLocked,
                      StartCreate, StartCopy, memVars
  <2> QED
    BY <2>2 DEF Appears
<1>5. CASE Users
  <2>1. ASSUME NEW b \in Buffers, Drop(b) PROVE FALSE
    <3>1. type' = [type EXCEPT ![b] = "absent"]
      BY <2>1 DEF Drop
    <3> QED
      BY <1>1, <1>2, <3>1 DEF Appears, TypeOK
  <2>2. UNCHANGED type
    BY <1>5, <2>1 DEF Users, Write, ReleaseFrame, memVars
  <2> QED
    BY <2>2 DEF Appears
<1>6. CASE UNCHANGED vars
  BY <1>6 DEF vars, Appears
<1> QED
  BY <1>3, <1>4, <1>5, <1>6 DEF Next

\* A deep copy has the content of its source at the moment it is made, however
\* the source was moved since is_spilled was read without the lock.
THEOREM CopiesKeepContent == Spec => CopiesAreExact
<1> DEFINE A == \A t \in Threads, c \in Buffers :
       /\ call[t].op \in {"copyHost", "copyDevice"} /\ call[t].dst = c
       /\ type[c] = "absent" /\ type'[c] # "absent"
       => Content(c)' = Content(call[t].arg)
<1>1. IInv /\ StoreInv /\ [Next]_vars => A
  BY CopyIsExact DEF Appears
<1>2. Spec => []IInv
  BY InvariantHolds
<1>3. Spec => []StoreInv
  BY BytesAreSomewhere
<1> QED
  BY <1>1, <1>2, <1>3, PTL DEF Spec, CopiesAreExact
=============================================================================
