------------------------------ MODULE Admission ------------------------------
(***************************************************************************)
(* AdmissionController of crates/nanoeval/src/evaluator.rs: a mutex over   *)
(* two counters and a tokio Notify.  Every attempt of every task(),        *)
(* tasks() or sweep() call passes through acquire and gives the permit     *)
(* back in its Drop.  The callers run on several threads, so each step     *)
(* that another thread can see is an action of its own.                    *)
(***************************************************************************)
EXTENDS Integers, FiniteSets

CONSTANTS Attempts, MaxConcurrency, MaxMemory, NoLimit, Memory

ASSUME AdmissionAssumption ==
  /\ IsFiniteSet(Attempts)
  /\ MaxConcurrency \in Nat \ {0}
  /\ NoLimit \notin Nat
  /\ MaxMemory \in (Nat \ {0}) \union {NoLimit}
  /\ Memory \in [Attempts -> Nat \ {0}]

VARIABLES
  pc,          \* where each caller stands, see Step
  running,     \* AdmissionState::running
  memory_mb,   \* AdmissionState::memory_mb
  signalled    \* callers whose Notified future notify_waiters has completed

admissionVars == <<pc, running, memory_mb, signalled>>

(***************************************************************************)
(* idle       the attempt has not asked yet                                *)
(* ready      about to create its Notified future                          *)
(* armed      the future exists, the lock is not yet taken                 *)
(* refused    the check failed and the lock is free again                  *)
(* waiting    changed.await                                                *)
(* running    holds a permit                                               *)
(* releasing  Drop has updated the counters, notify_waiters is still to    *)
(*            come                                                         *)
(* done       finished or cancelled                                        *)
(***************************************************************************)
Step == {"idle", "ready", "armed", "refused", "waiting", "running", "releasing", "done"}

Holders == {a \in Attempts : pc[a] = "running"}

Semaphore == INSTANCE WeightedSemaphore WITH holders <- Holders

Grant(a) == IF MaxMemory = NoLimit THEN 0
            ELSE IF Memory[a] <= MaxMemory THEN Memory[a] ELSE MaxMemory

\* saturating_sub
Monus(x, y) == IF x >= y THEN x - y ELSE 0

\* Fault: the check forgets the memory it is about to add.
FitsBeforeGrant(a) ==
  /\ running < MaxConcurrency
  /\ MaxMemory = NoLimit \/ memory_mb < MaxMemory

\* The condition acquire evaluates under the lock.
Fits(a) ==
  /\ running < MaxConcurrency
  /\ MaxMemory = NoLimit \/ memory_mb + Grant(a) <= MaxMemory

\* Fault: the future registers when it is first polled, after the check.
ListeningOnceAsleep == {a \in Attempts : pc[a] = "waiting"}

\* A Notified future is completed by every notify_waiters call made after the
\* future was created, whether or not it has been awaited yet.
Listening == {a \in Attempts : pc[a] \in {"armed", "refused", "waiting"}}

Init ==
  /\ pc = [a \in Attempts |-> "idle"]
  /\ running = 0
  /\ memory_mb = 0
  /\ signalled = {}

-----------------------------------------------------------------------------
(* AdmissionController::acquire *)

Request(a) ==
  /\ pc[a] = "idle"
  /\ pc' = [pc EXCEPT ![a] = "ready"]
  /\ UNCHANGED <<running, memory_mb, signalled>>

\* let changed = self.changed.notified(), at the top of the loop: on the first
\* round, or once the previous future has completed.
Arm(a) ==
  /\ pc[a] = "ready" \/ (pc[a] = "waiting" /\ a \in signalled)
  /\ pc' = [pc EXCEPT ![a] = "armed"]
  /\ signalled' = signalled \ {a}
  /\ UNCHANGED <<running, memory_mb>>

Admit(a) ==
  /\ pc[a] = "armed"
  /\ Fits(a)
  /\ pc' = [pc EXCEPT ![a] = "running"]
  /\ running' = running + 1
  /\ memory_mb' = memory_mb + Grant(a)
  /\ signalled' = signalled \ {a}

Refuse(a) ==
  /\ pc[a] = "armed"
  /\ ~Fits(a)
  /\ pc' = [pc EXCEPT ![a] = "refused"]
  /\ UNCHANGED <<running, memory_mb, signalled>>

Sleep(a) ==
  /\ pc[a] = "refused"
  /\ pc' = [pc EXCEPT ![a] = "waiting"]
  /\ UNCHANGED <<running, memory_mb, signalled>>

\* The caller drops the future it was awaiting: no permit was taken.
Abandon(a) ==
  /\ pc[a] = "waiting"
  /\ pc' = [pc EXCEPT ![a] = "done"]
  /\ signalled' = signalled \ {a}
  /\ UNCHANGED <<running, memory_mb>>

-----------------------------------------------------------------------------
(* Drop for AdmissionPermit: when the attempt ends, however it ends. *)

Release(a) ==
  /\ pc[a] = "running"
  /\ pc' = [pc EXCEPT ![a] = "releasing"]
  /\ running' = Monus(running, 1)
  /\ memory_mb' = Monus(memory_mb, Grant(a))
  /\ UNCHANGED signalled

NotifyWaiters(a) ==
  /\ pc[a] = "releasing"
  /\ pc' = [pc EXCEPT ![a] = "done"]
  /\ signalled' = signalled \union Listening
  /\ UNCHANGED <<running, memory_mb>>

-----------------------------------------------------------------------------
Next == \E a \in Attempts :
  \/ Request(a)
  \/ Arm(a)
  \/ Admit(a)
  \/ Refuse(a)
  \/ Sleep(a)
  \/ Abandon(a)
  \/ Release(a)
  \/ NotifyWaiters(a)

Spec == Init /\ [][Next]_admissionVars

\* The runtime polls a woken future and finishes a Drop it has begun; an
\* attempt ends because its agent and its verifier both run under a timeout.
\* Nobody is obliged to ask or to abandon.
Fairness == \A a \in Attempts :
  /\ WF_admissionVars(Arm(a))
  /\ WF_admissionVars(Admit(a))
  /\ WF_admissionVars(Refuse(a))
  /\ WF_admissionVars(Sleep(a))
  /\ WF_admissionVars(Release(a))
  /\ WF_admissionVars(NotifyWaiters(a))

FairSpec == Spec /\ Fairness

-----------------------------------------------------------------------------
TypeOK ==
  /\ pc \in [Attempts -> Step]
  /\ running \in Nat
  /\ memory_mb \in Nat
  /\ signalled \subseteq Attempts

\* The counters under the mutex are exactly the permits that are out: no
\* permit is leaked by an abandoned acquire or released twice, and
\* saturating_sub never hides an underflow.
PermitsAccounted ==
  /\ running = Cardinality(Holders)
  /\ memory_mb = Cardinality(Semaphore!Units(Holders))

\* Admitted attempts never exceed the concurrency limit or the memory ceiling,
\* counted over the attempts themselves and not over the counters.
WithinLimits == Semaphore!Allowed(Holders)

\* A task whose own declaration exceeds the ceiling runs alone (max_memory_mb
\* of NanoevalBuilder): its clamped grant leaves no room for any other.
OversizedRunsAlone ==
  \A a \in Holders :
    (MaxMemory # NoLimit /\ Memory[a] > MaxMemory) => Holders = {a}

\* Nobody sleeps through a release: a caller that is asleep without a pending
\* signal does not fit, unless some Drop has yet to call notify_waiters.  This
\* is why acquire creates its Notified before it takes the lock.
NoLostWakeup ==
  \A a \in Attempts :
    (pc[a] = "waiting" /\ a \notin signalled /\ Fits(a))
      => \E b \in Attempts : pc[b] = "releasing"

\* The controller implements the weighted semaphore: every step takes one
\* permit within the limits, gives one back, or changes nothing a caller of
\* the semaphore sees.
ImplementsSemaphore == Semaphore!Spec

\* Every caller that asks for a permit and is not dropped gets one and ends,
\* the one that needs the whole ceiling included, as long as the callers that
\* compete with it are finitely many.
EveryRequestEnds ==
  \A a \in Attempts : (pc[a] = "ready") ~> (pc[a] = "done")
=============================================================================
