----------------------------- MODULE MCRetryQueue -----------------------------
(* A completed job of two tasks, and a few commands after it. *)
EXTENDS RetryQueue, TLC

CONSTANTS fix, build, t1, t2

Result(seen) == [n |-> 2, seen |-> seen]
MCOldJobs ==
  <<[tasks |-> {fix, build}, trials |-> 2, attached |-> TRUE,
     invocation |-> [thinking |-> 1, from |-> None],
     done |-> (fix :> Result({"failed", "errored"}) @@ build :> Result({"failed"}))]>>

MCSymmetry == Permutations(Terminals)

Rerun ==
  [rerun |-> TRUE, from |-> None, tasks |-> {fix, build}, trials |-> 1, include |-> {},
   thinking |-> None, new |-> FALSE]
MCCommands ==
  {Rerun, [Rerun EXCEPT !.from = 2],
   [Rerun EXCEPT !.tasks = {fix}, !.include = {"errored"}, !.thinking = 2, !.new = TRUE],
   [Rerun EXCEPT !.rerun = FALSE]}
=============================================================================
