---------------------------- MODULE BufferStore ----------------------------
(***************************************************************************)
(* What the buffers of cudf.core.buffer promise their users, with no       *)
(* mention of spilling: a buffer has one content, whoever got a pointer to *)
(* it may write through the pointer until giving it up, and nothing else   *)
(* changes the content.  SpillManager implements this specification.       *)
(*                                                                         *)
(* The one concession is Lose: a failed move back to the device destroys   *)
(* the content of a buffer nobody holds a pointer to.                      *)
(***************************************************************************)
EXTENDS Naturals

CONSTANTS Buffers,      \* identities of SpillableBufferOwner objects
          Accessors,    \* who can hold a pointer: threads, frames, outsiders
          Values,       \* contents
          Absent,       \* the value of a buffer that does not exist
          Lost          \* the value of a buffer whose content was destroyed

VARIABLES value,        \* the content of each buffer
          holders       \* who may access a buffer's device memory

storeVars == <<value, holders>>

StoreInit == /\ value \in [Buffers -> Values \cup {Absent}]
             /\ holders = [b \in Buffers |-> {}]

\* A new buffer, possibly exposed from the start, a copy being no exception.
Create(b, v, H) == /\ value[b] = Absent
                   /\ value' = [value EXCEPT ![b] = v]
                   /\ holders' = [holders EXCEPT ![b] = H]

Grant(b, a) == /\ value[b] \in Values
               /\ holders' = [holders EXCEPT ![b] = @ \cup {a}]
               /\ UNCHANGED value

\* An accessor gives up every pointer it holds.
Release(a) == /\ holders' = [b \in Buffers |-> holders[b] \ {a}]
              /\ UNCHANGED value

Write(b, a, v) == /\ a \in holders[b]
                  /\ value[b] \in Values
                  /\ value' = [value EXCEPT ![b] = v]
                  /\ UNCHANGED holders

Lose(b) == /\ holders[b] = {}
           /\ value[b] \in Values
           /\ value' = [value EXCEPT ![b] = Lost]
           /\ UNCHANGED holders

Discard(b) == /\ value[b] # Absent
              /\ value' = [value EXCEPT ![b] = Absent]
              /\ holders' = [holders EXCEPT ![b] = {}]

StoreNext ==
  \/ \E b \in Buffers, v \in Values, H \in SUBSET Accessors : Create(b, v, H)
  \/ \E b \in Buffers, a \in Accessors : Grant(b, a)
  \/ \E a \in Accessors : Release(a)
  \/ \E b \in Buffers, a \in Accessors, v \in Values : Write(b, a, v)
  \/ \E b \in Buffers : Lose(b) \/ Discard(b)

StoreSpec == StoreInit /\ [][StoreNext]_storeVars
=============================================================================
