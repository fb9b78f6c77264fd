------------------------------ MODULE RunTasks ------------------------------
(***************************************************************************)
(* Nanoeval::run_tasks of crates/nanoeval/src/evaluator.rs: one call runs  *)
(* the attempts of Batch through a buffer_unordered window, each behind    *)
(* the AdmissionController of module Admission, while other callers        *)
(* (Nanoeval::task, one attempt each) compete for the same permits.        *)
(*                                                                         *)
(* The futures of the window live in the one task that awaits run_tasks,   *)
(* so at most one of them is being polled at a time; a direct caller may   *)
(* run on another thread and interleaves freely.                           *)
(***************************************************************************)
EXTENDS Admission, SequencesExt

CONSTANTS Batch,         \* the inputs of the run_tasks call, in order
          WindowFactor   \* the 4 of max_concurrency.saturating_mul(4)

ASSUME BatchAssumption ==
  /\ Batch \in Seq(Attempts) /\ IsInjective(Batch)
  /\ WindowFactor \in Nat \ {0}

VARIABLES
  outcome,      \* what run_task returned for each attempt
  next_input,   \* position of the input stream
  results,      \* indices of the successes collected, in completion order
  first_error,  \* index of the failure run_tasks will report, 0 for None
  returned      \* what run_tasks returned to its caller

runVars == <<outcome, next_input, results, first_error, returned>>
vars == <<admissionVars, runVars>>

InBatch(a) == a \in Range(Batch)
Direct == Attempts \ Range(Batch)
IndexOf(a) == CHOOSE i \in DOMAIN Batch : Batch[i] = a

\* tasks.len().min(max_concurrency * 4).max(1)
Window ==
  LET wanted == Min({Len(Batch), MaxConcurrency * WindowFactor})
  IN  Max({wanted, 1})

InFlight == {i \in DOMAIN Batch : pc[Batch[i]] \notin {"idle", "done"}}

WindowOpen == next_input <= Len(Batch) /\ Cardinality(InFlight) < Window

\* The task that awaits run_tasks may poll one of its futures: it is not in the
\* middle of another, and buffer_unordered fills its window first.
MayPoll ==
  /\ ~WindowOpen
  /\ \A i \in DOMAIN Batch : pc[Batch[i]] \notin {"armed", "refused", "releasing"}

Pending == [kind |-> "pending", indices |-> <<>>]

RunInit ==
  /\ Init
  /\ outcome = [a \in Attempts |-> "none"]
  /\ next_input = 1
  /\ results = <<>>
  /\ first_error = 0
  /\ returned = Pending

-----------------------------------------------------------------------------
(* Nanoeval::task and the common part of every attempt *)

DirectRequest(a) ==
  /\ a \in Direct
  /\ Request(a)
  /\ UNCHANGED runVars

\* One poll of acquire, up to its verdict or its await.
PollAcquire(a) ==
  /\ \/ Arm(a) /\ (InBatch(a) => MayPoll)
     \/ Admit(a)
     \/ Refuse(a)
     \/ Sleep(a)
  /\ UNCHANGED runVars

DirectAbandon(a) ==
  /\ a \in Direct
  /\ Abandon(a)
  /\ UNCHANGED runVars

\* run_task returns and the permit goes out of scope.
FinishTask(a, result) ==
  /\ InBatch(a) => MayPoll
  /\ Release(a)
  /\ outcome' = [outcome EXCEPT ![a] = result]
  /\ UNCHANGED <<next_input, results, first_error, returned>>

DirectReturn(a) ==
  /\ a \in Direct
  /\ NotifyWaiters(a)
  /\ UNCHANGED runVars

-----------------------------------------------------------------------------
(* run_tasks *)

\* buffer_unordered pulls the next input while its window has room.
StartInput ==
  /\ WindowOpen
  /\ Request(Batch[next_input])
  /\ next_input' = next_input + 1
  /\ UNCHANGED <<outcome, results, first_error, returned>>

\* The future completes and the collecting loop takes its result.
CollectResult(a) ==
  /\ InBatch(a)
  /\ NotifyWaiters(a)
  /\ \/ /\ outcome[a] = "ok"
        /\ results' = Append(results, IndexOf(a))
        /\ UNCHANGED first_error
     \/ /\ outcome[a] = "error"
        /\ first_error' = IF first_error = 0 THEN IndexOf(a) ELSE first_error
        /\ UNCHANGED results
  /\ UNCHANGED <<outcome, next_input, returned>>

\* results.sort_unstable_by_key(|(index, _)| *index)
InIndexOrder(indices) ==
  CHOOSE sorted \in [DOMAIN indices -> Range(indices)] :
    /\ Range(sorted) = Range(indices)
    /\ \A i, j \in DOMAIN sorted : i < j => sorted[i] < sorted[j]

\* Fault: the first failure ends the batch.
BatchFailedOrDrained ==
  first_error # 0 \/ (next_input > Len(Batch) /\ InFlight = {})

BatchDrained == next_input > Len(Batch) /\ InFlight = {}

Return ==
  /\ returned = Pending
  /\ BatchDrained
  /\ returned' = IF first_error # 0
                 THEN [kind |-> "error", indices |-> <<first_error>>]
                 ELSE [kind |-> "ok", indices |-> InIndexOrder(results)]
  /\ UNCHANGED <<admissionVars, outcome, next_input, results, first_error>>

-----------------------------------------------------------------------------
RunNext ==
  \/ StartInput
  \/ Return
  \/ \E a \in Attempts :
       \/ DirectRequest(a)
       \/ DirectAbandon(a)
       \/ DirectReturn(a)
       \/ PollAcquire(a)
       \/ CollectResult(a)
       \/ \E result \in {"ok", "error"} : FinishTask(a, result)

RunSpec == RunInit /\ [][RunNext]_vars

\* The task that awaits run_tasks keeps being polled, and attempts end (both
\* phases run under a timeout).  Direct callers owe nothing before they have
\* asked; one that was admitted ends like any other.
RunFairness ==
  /\ WF_vars(StartInput)
  /\ WF_vars(Return)
  /\ \A a \in Attempts :
       /\ WF_vars(PollAcquire(a))
       /\ WF_vars(\E result \in {"ok", "error"} : FinishTask(a, result))
       /\ WF_vars(CollectResult(a))
       /\ WF_vars(DirectReturn(a))

RunFairSpec == RunSpec /\ RunFairness

-----------------------------------------------------------------------------
\* A failure cancels nothing: when run_tasks returns, every attempt of the
\* batch has run to its own end, and the call fails exactly if one of them did.
\* "Results preserve attempt order even when work completes out of order"
\* (task_n): a successful call returns every input exactly once, in order.
WholeBatchReturned ==
  returned # Pending =>
    /\ \A i \in DOMAIN Batch : outcome[Batch[i]] # "none"
    /\ returned.kind = "error" <=> \E i \in DOMAIN Batch : outcome[Batch[i]] = "error"
    /\ returned.kind = "ok" => returned.indices = [i \in DOMAIN Batch |-> i]

\* run_tasks always returns: neither a full window of sleeping acquires nor a
\* larger waiter that smaller attempts overtake can hold it up for ever.
RunTasksReturns == <>(returned # Pending)

=============================================================================
