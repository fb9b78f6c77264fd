----------------------------- MODULE MCVmAttempt -----------------------------
EXTENDS VmAttempt, TLC

CONSTANTS first, second, one, two

(* Two commands with one attempt each. *)
MCOwner == (one :> first) @@ (two :> second)
=============================================================================
