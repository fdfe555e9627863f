--------------------------- MODULE MCMemoryBuffers ---------------------------
(***************************************************************************)
(* A small instance of MemoryBuffers.                                       *)
(***************************************************************************)
EXTENDS MemoryBuffers, TLC

CONSTANTS u1, u2, gcThread, exitHook

Wide(kinds) ==
  [users |-> {u1}, objects |-> 3, kinds |-> kinds, failures |-> 0, debug |-> FALSE, shutdown |-> FALSE]
Racing(kinds) == [Wide(kinds) EXCEPT !.users = Users, !.objects = 2]
MCModes ==
  {Wide({"device"}), Racing({"mmap"}), [Racing({"rmm"}) EXCEPT !.failures = 1],
   [Racing({"device"}) EXCEPT !.debug = TRUE], [Racing({"device"}) EXCEPT !.shutdown = TRUE]}
=============================================================================
