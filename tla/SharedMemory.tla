---------------------------- MODULE SharedMemory ----------------------------
(***************************************************************************)
(* What the Java buffers and columns of cuDF promise: native memory that     *)
(* several references share is freed once, and not while anyone has a        *)
(* reference, unless the virtual machine is on its way out.                  *)
(***************************************************************************)
CONSTANT Memories

VARIABLES state,   \* of each memory: "none", "live" or "freed"
          held,    \* whether there is a reference to it that was not given up
          exiting  \* the virtual machine is shutting down
memoryVars == <<state, held, exiting>>

Init ==
  /\ state = [m \in Memories |-> "none"] /\ held = [m \in Memories |-> FALSE]
  /\ exiting = FALSE

Allocate(m) == state[m] = "none" /\ state'[m] = "live" /\ ~held[m] /\ held'[m]

\* The last reference is given up, properly or not: nobody gets another one.
GiveUp(m) == held[m] /\ ~held'[m] /\ state'[m] = state[m]

Free(m) ==
  /\ state[m] = "live" /\ (~held[m] \/ exiting)
  /\ state'[m] = "freed" /\ held'[m] = held[m]

\* Whoever has a reference may make others.
Keep(m) == state'[m] = state[m] /\ held'[m] = held[m]

\* A reference to a column refers to several memories at once.
Next ==
  /\ state' = [m \in Memories |-> state'[m]] /\ held' = [m \in Memories |-> held'[m]]
  /\ exiting => exiting'
  /\ \A m \in Memories : Allocate(m) \/ GiveUp(m) \/ Free(m) \/ Keep(m)

Spec == Init /\ [][Next]_memoryVars
=============================================================================
