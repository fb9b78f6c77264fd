-------------------------- MODULE WeightedSemaphore --------------------------
(***************************************************************************)
(* What AdmissionController promises its callers, with no lock, counter or *)
(* wake-up in sight: at most MaxConcurrency attempts hold a permit, and    *)
(* the memory their permits stand for never exceeds the ceiling.           *)
(***************************************************************************)
EXTENDS Integers, FiniteSets

CONSTANTS Attempts,        \* callers of AdmissionController::acquire
          MaxConcurrency,  \* builder max_concurrency
          MaxMemory,       \* builder max_memory_mb, or NoLimit for None
          NoLimit,         \* placeholder for a builder without a ceiling
          Memory           \* task.resources().memory_mb of each caller

VARIABLE holders           \* the attempts that hold a permit

\* acquire clamps a request to the ceiling; without a ceiling a permit
\* accounts for no memory at all.
Grant(a) == IF MaxMemory = NoLimit THEN 0
            ELSE IF Memory[a] <= MaxMemory THEN Memory[a] ELSE MaxMemory

\* One element per MiB held by the attempts of S, so that its cardinality is
\* the sum of their grants.
Units(S) == IF MaxMemory = NoLimit THEN {}
            ELSE UNION {{a} \X (1 .. Grant(a)) : a \in S}

Allowed(S) == /\ Cardinality(S) <= MaxConcurrency
              /\ MaxMemory # NoLimit => Cardinality(Units(S)) <= MaxMemory

Init == holders = {}

Acquire(a) == /\ a \notin holders
              /\ Allowed(holders \union {a})
              /\ holders' = holders \union {a}

Release(a) == /\ a \in holders
              /\ holders' = holders \ {a}

Next == \E a \in Attempts : Acquire(a) \/ Release(a)

Spec == Init /\ [][Next]_holders
=============================================================================
