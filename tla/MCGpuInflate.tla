---------------------------- MODULE MCGpuInflate ----------------------------
(***************************************************************************)
(* Small instances of GpuInflate.  The view counts symbols from the last one  *)
(* written and forgets what is left in batches that are not ready.           *)
(***************************************************************************)
EXTENDS GpuInflate

Ready(b) ==
  IF b = dec.batch /\ dec.pc # "wait" THEN dec.len
  ELSE IF batchLen[b] > 0 THEN batchLen[b] ELSE 0

UpToCount ==
  <<inputVars, ringVars, batchLen, kernelVars, dec, pre,
    [con EXCEPT !.symbols = [i \in DOMAIN con.symbols |-> con.symbols[i] - out]],
    decoded - out,
    [b \in DOMAIN queue |->
       [i \in {j \in 1 .. BatchSize : j <= Ready(b)} |-> queue[b][i] - out]]>>
=============================================================================
