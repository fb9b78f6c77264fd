----------------------------- MODULE MCRunTasks -----------------------------
EXTENDS RunTasks

CONSTANTS b1, b2, b3, d1, d2

(* Three inputs through a window of two, a task larger than the ceiling among  *)
(* smaller ones, and two direct callers that compete with them.               *)
MCBatch == <<b1, b2, b3>>
MCAttempts == {b1, b2, b3, d1, d2}
MCMemory == (b1 :> 1) @@ (b2 :> 5) @@ (b3 :> 2) @@ (d1 :> 2) @@ (d2 :> 1)
=============================================================================
