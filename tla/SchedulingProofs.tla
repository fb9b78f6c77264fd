-------------------------- MODULE SchedulingProofs --------------------------
(***************************************************************************)
(* Proofs about how a run is scheduled.  The first half is about Admission *)
(* and RunTasks: when an attempt may start, and what a batch returns, for  *)
(* every finite set of attempts, every concurrency limit, every ceiling    *)
(* (or none) and every declared memory.  The second is about RetryQueue:   *)
(* which tasks a rerun gives the batch, for every history that the         *)
(* commands can have left and any number of terminals and commands.        *)
(*                                                                         *)
(* Units(S) holds one element per MiB granted to S, so facts about the sum *)
(* of the grants are facts about the cardinality of a finite set and need  *)
(* no induction.                                                           *)
(*                                                                         *)
(* The argument about the queue rests on a numbering of the jobs in which  *)
(* every source comes before its reruns.  Job numbers will not do, since a *)
(* job is started before it is given its source; the numbering is chosen   *)
(* anew when a job is given one, and exists because a job without an       *)
(* invocation.json has no result.json, so that nobody has rerun it yet.    *)
(***************************************************************************)
EXTENDS RunTasks, RetryQueue, TLAPS, FiniteSetTheorems, SequenceTheorems,
        WellFoundedInduction

-----------------------------------------------------------------------------
(* Lemmas about Grant and Units *)

\* A permit accounts for a positive share of the ceiling, or for nothing when
\* there is no ceiling; both modules compute it alike.
LEMMA GrantBounds ==
  ASSUME NEW a \in Attempts
  PROVE  /\ Grant(a) \in Nat
         /\ Semaphore!Grant(a) = Grant(a)
         /\ MaxMemory = NoLimit => Grant(a) = 0
         /\ MaxMemory # NoLimit => /\ MaxMemory \in Nat
                                   /\ Grant(a) \in 1 .. MaxMemory
BY AdmissionAssumption DEF Grant, Semaphore!Grant

\* The units held by any set of attempts are finitely many.
LEMMA UnitsFinite ==
  ASSUME NEW S, S \subseteq Attempts
  PROVE  IsFiniteSet(Semaphore!Units(S)) /\ Cardinality(Semaphore!Units(S)) \in Nat
<1>1. CASE MaxMemory = NoLimit
  BY <1>1, FS_EmptySet DEF Semaphore!Units
<1>2. CASE MaxMemory # NoLimit
  <2>1. MaxMemory \in Nat
    BY <1>2, AdmissionAssumption
  <2>2. IsFiniteSet(1 .. MaxMemory)
    BY <2>1, FS_Interval
  <2>3. IsFiniteSet(Attempts \X (1 .. MaxMemory))
    BY <2>2, FS_Product, AdmissionAssumption
  <2>4. ASSUME NEW a \in S
        PROVE  {a} \X (1 .. Semaphore!Grant(a)) \subseteq Attempts \X (1 .. MaxMemory)
    BY <1>2, <2>1, <2>4, GrantBounds
  <2>5. Semaphore!Units(S) \subseteq Attempts \X (1 .. MaxMemory)
    BY <1>2, <2>4 DEF Semaphore!Units
  <2>6. QED
    BY <2>3, <2>5, FS_Subset, FS_CardinalityType
<1>3. QED
  BY <1>1, <1>2

\* Granting one more permit adds exactly its grant to the units held.
LEMMA UnitsAdd ==
  ASSUME NEW S, S \subseteq Attempts, NEW a \in Attempts, a \notin S
  PROVE  Cardinality(Semaphore!Units(S \union {a}))
           = Cardinality(Semaphore!Units(S)) + Grant(a)
<1>1. CASE MaxMemory = NoLimit
  BY <1>1, FS_EmptySet, GrantBounds DEF Semaphore!Units
<1>2. CASE MaxMemory # NoLimit
  <2> DEFINE Own == {a} \X (1 .. Grant(a))
  <2>1. Grant(a) \in Nat /\ Grant(a) >= 1 /\ Semaphore!Grant(a) = Grant(a)
    BY <1>2, GrantBounds
  <2>2. IsFiniteSet(1 .. Grant(a)) /\ Cardinality(1 .. Grant(a)) = Grant(a)
    BY <2>1, FS_Interval
  <2>3. IsFiniteSet(Own) /\ Cardinality(Own) = Grant(a)
    <3>1. IsFiniteSet({a}) /\ Cardinality({a}) = 1
      BY FS_Singleton
    <3>2. IsFiniteSet(Own) /\ Cardinality(Own) = Cardinality({a}) * Cardinality(1 .. Grant(a))
      BY <2>2, <3>1, FS_Product
    <3>3. QED
      BY <2>1, <2>2, <3>1, <3>2
  <2>4. Semaphore!Units(S \union {a}) = Semaphore!Units(S) \union Own
    BY <1>2, <2>1 DEF Semaphore!Units
  <2>5. Semaphore!Units(S) \cap Own = {}
    BY <1>2 DEF Semaphore!Units
  <2> HIDE DEF Own
  <2>6. IsFiniteSet(Semaphore!Units(S)) /\ Cardinality(Semaphore!Units(S)) \in Nat
    BY UnitsFinite
  <2>7. Cardinality(Semaphore!Units(S) \union Own)
          = Cardinality(Semaphore!Units(S)) + Cardinality(Own)
              - Cardinality(Semaphore!Units(S) \cap Own)
    BY <2>3, <2>6, FS_Union
  <2>8. Cardinality(Semaphore!Units(S) \cap Own) = 0
    BY <2>5, FS_EmptySet
  <2>9. Cardinality(Semaphore!Units(S \union {a})) = Cardinality(Semaphore!Units(S) \union Own)
    BY <2>4
  <2>10. QED
    BY <2>1, <2>3, <2>6, <2>7, <2>8, <2>9
<1>3. QED
  BY <1>1, <1>2

\* Giving a permit back removes exactly its grant.
LEMMA UnitsRemove ==
  ASSUME NEW S, S \subseteq Attempts, NEW a \in S
  PROVE  Cardinality(Semaphore!Units(S \ {a}))
           = Cardinality(Semaphore!Units(S)) - Grant(a)
<1>1. /\ S \ {a} \subseteq Attempts
      /\ a \notin S \ {a}
      /\ a \in Attempts
      /\ (S \ {a}) \union {a} = S
  OBVIOUS
<1>2. Cardinality(Semaphore!Units((S \ {a}) \union {a}))
        = Cardinality(Semaphore!Units(S \ {a})) + Grant(a)
  BY <1>1, UnitsAdd
<1>3. Cardinality(Semaphore!Units(S \ {a})) \in Nat /\ Grant(a) \in Nat
  BY <1>1, UnitsFinite, GrantBounds
<1>4. Cardinality(Semaphore!Units(S)) = Cardinality(Semaphore!Units(S \ {a})) + Grant(a)
  BY <1>1, <1>2
<1>5. QED
  BY <1>3, <1>4

\* The holders are a finite set of attempts.
LEMMA HoldersFinite ==
  /\ Holders \subseteq Attempts
  /\ IsFiniteSet(Holders)
  /\ Cardinality(Holders) \in Nat
BY FS_Subset, FS_CardinalityType, AdmissionAssumption DEF Holders

-----------------------------------------------------------------------------
(* Who holds a permit changes in Admit and in Release only *)

\* What each action does to the set of holders.
LEMMA AdmitHolders ==
  ASSUME TypeOK, NEW a \in Attempts, Admit(a)
  PROVE  a \notin Holders /\ Holders' = Holders \union {a}
BY DEF TypeOK, Admit, Holders

LEMMA ReleaseHolders ==
  ASSUME TypeOK, NEW a \in Attempts, Release(a)
  PROVE  a \in Holders /\ Holders' = Holders \ {a}
BY DEF TypeOK, Release, Holders

LEMMA OtherHolders ==
  ASSUME TypeOK, NEW a \in Attempts,
         \/ Request(a) \/ Arm(a) \/ Refuse(a)
         \/ Sleep(a) \/ Abandon(a) \/ NotifyWaiters(a)
  PROVE  Holders' = Holders /\ UNCHANGED <<running, memory_mb>>
BY DEF TypeOK, Request, Arm, Refuse, Sleep, Abandon, NotifyWaiters, Holders

-----------------------------------------------------------------------------
(* Type correctness *)

\* The program counter, both counters and the signal set keep their types:
\* in particular the counters never leave the naturals.
THEOREM Typing == Spec => []TypeOK
<1>1. Init => TypeOK
  BY DEF Init, TypeOK, Step
<1>2. TypeOK /\ [Next]_admissionVars => TypeOK'
  <2> SUFFICES ASSUME TypeOK, [Next]_admissionVars
               PROVE  TypeOK'
    OBVIOUS
  <2> USE DEF TypeOK, Step
  <2>1. ASSUME NEW a \in Attempts, Request(a)
        PROVE  TypeOK'
    BY <2>1 DEF Request
  <2>2. ASSUME NEW a \in Attempts, Arm(a)
        PROVE  TypeOK'
    BY <2>2 DEF Arm
  <2>3. ASSUME NEW a \in Attempts, Admit(a)
        PROVE  TypeOK'
    BY <2>3, GrantBounds DEF Admit
  <2>4. ASSUME NEW a \in Attempts, Sleep(a)
        PROVE  TypeOK'
    BY <2>4 DEF Sleep
  <2>5. ASSUME NEW a \in Attempts, Refuse(a)
        PROVE  TypeOK'
    BY <2>5 DEF Refuse
  <2>6. ASSUME NEW a \in Attempts, Abandon(a)
        PROVE  TypeOK'
    BY <2>6 DEF Abandon
  <2>7. ASSUME NEW a \in Attempts, Release(a)
        PROVE  TypeOK'
    BY <2>7, GrantBounds DEF Release, Monus
  <2>8. ASSUME NEW a \in Attempts, NotifyWaiters(a)
        PROVE  TypeOK'
    BY <2>8 DEF NotifyWaiters, Listening
  <2>9. CASE UNCHANGED admissionVars
    BY <2>9 DEF admissionVars
  <2>10. QED
    BY <2>1, <2>2, <2>3, <2>4, <2>5, <2>6, <2>7, <2>8, <2>9 DEF Next
<1>3. QED
  BY <1>1, <1>2, PTL DEF Spec

-----------------------------------------------------------------------------
(* The counters and the limits.  PermitsAccounted is inductive given the     *)
(* types; the limits then follow from what acquire tests under the lock.     *)

\* The counters stay within the configured limits.
CountersWithinLimits ==
  /\ running <= MaxConcurrency
  /\ MaxMemory # NoLimit => memory_mb <= MaxMemory

\* The inductive invariant of the controller.
AccountingInv == TypeOK /\ PermitsAccounted /\ CountersWithinLimits

\* It holds before the first attempt.
LEMMA AccountingInit == Init => AccountingInv
<1> SUFFICES ASSUME Init
             PROVE  PermitsAccounted /\ CountersWithinLimits /\ TypeOK
  BY DEF AccountingInv
<1>1. Holders = {}
  BY DEF Init, Holders
<1>2. Semaphore!Units({}) = {}
  BY DEF Semaphore!Units
<1>3. PermitsAccounted
  BY <1>1, <1>2, FS_EmptySet DEF Init, PermitsAccounted
<1>4. CountersWithinLimits
  BY AdmissionAssumption DEF Init, CountersWithinLimits
<1>5. TypeOK
  BY DEF Init, TypeOK, Step
<1>6. QED
  BY <1>3, <1>4, <1>5

\* Admitting an attempt takes its own grant from the counters.
LEMMA AdmitAccounted ==
  ASSUME AccountingInv, NEW a \in Attempts, Admit(a)
  PROVE  PermitsAccounted' /\ CountersWithinLimits'
<1>1. a \notin Holders /\ Holders' = Holders \union {a}
  BY AdmitHolders DEF AccountingInv
<1>2. running' = Cardinality(Holders')
  <2>1. Cardinality(Holders \union {a}) = Cardinality(Holders) + 1
    BY <1>1, HoldersFinite, FS_AddElement
  <2>2. QED
    BY <1>1, <2>1 DEF AccountingInv, PermitsAccounted, Admit
<1>3. memory_mb' = Cardinality(Semaphore!Units(Holders'))
  <2>1. Cardinality(Semaphore!Units(Holders \union {a}))
          = Cardinality(Semaphore!Units(Holders)) + Grant(a)
    BY <1>1, HoldersFinite, UnitsAdd
  <2>2. QED
    BY <1>1, <2>1 DEF AccountingInv, PermitsAccounted, Admit
<1>4. PermitsAccounted'
  BY <1>2, <1>3 DEF PermitsAccounted
<1>5. CountersWithinLimits'
  BY AdmissionAssumption, GrantBounds
  DEF AccountingInv, TypeOK, CountersWithinLimits, Admit, Fits
<1>6. QED
  BY <1>4, <1>5

\* Dropping a permit gives that grant back.
LEMMA ReleaseAccounted ==
  ASSUME AccountingInv, NEW a \in Attempts, Release(a)
  PROVE  PermitsAccounted' /\ CountersWithinLimits'
<1>1. a \in Holders /\ Holders' = Holders \ {a}
  BY ReleaseHolders DEF AccountingInv
<1>2. /\ Cardinality(Holders \ {a}) = Cardinality(Holders) - 1
      /\ Cardinality(Holders \ {a}) \in Nat
  BY <1>1, HoldersFinite, FS_RemoveElement, FS_CardinalityType
<1>3. /\ Cardinality(Semaphore!Units(Holders \ {a}))
           = Cardinality(Semaphore!Units(Holders)) - Grant(a)
      /\ Cardinality(Semaphore!Units(Holders \ {a})) \in Nat
  <2>1. Holders \ {a} \subseteq Attempts
    BY HoldersFinite
  <2>2. QED
    BY <1>1, <2>1, HoldersFinite, UnitsRemove, UnitsFinite
<1>4. running >= 1 /\ memory_mb >= Grant(a)
  BY <1>2, <1>3, GrantBounds DEF AccountingInv, TypeOK, PermitsAccounted
<1>5. running' = running - 1 /\ memory_mb' = memory_mb - Grant(a)
  BY <1>4 DEF Release, Monus
<1>6. PermitsAccounted'
  <2>1. running' = Cardinality(Holders')
    BY <1>1, <1>2, <1>5 DEF AccountingInv, PermitsAccounted
  <2>2. memory_mb' = Cardinality(Semaphore!Units(Holders'))
    BY <1>1, <1>3, <1>5 DEF AccountingInv, PermitsAccounted
  <2>3. QED
    BY <2>1, <2>2 DEF PermitsAccounted
<1>7. CountersWithinLimits'
  BY <1>5, AdmissionAssumption, GrantBounds
  DEF AccountingInv, TypeOK, CountersWithinLimits
<1>8. QED
  BY <1>6, <1>7

\* Every other step leaves the holders and the counters alone.
LEMMA OtherAccounted ==
  ASSUME AccountingInv,
         Holders' = Holders, UNCHANGED <<running, memory_mb>>
  PROVE  PermitsAccounted' /\ CountersWithinLimits'
BY DEF AccountingInv, PermitsAccounted, CountersWithinLimits

\* So it holds in every behaviour.
LEMMA Accounting == Spec => []AccountingInv
<1>1. AccountingInv /\ TypeOK' /\ [Next]_admissionVars => AccountingInv'
  <2> SUFFICES ASSUME AccountingInv, TypeOK', [Next]_admissionVars
               PROVE  PermitsAccounted' /\ CountersWithinLimits'
    BY DEF AccountingInv
  <2>1. ASSUME NEW a \in Attempts, Admit(a)
        PROVE  PermitsAccounted' /\ CountersWithinLimits'
    BY <2>1, AdmitAccounted
  <2>2. ASSUME NEW a \in Attempts, Release(a)
        PROVE  PermitsAccounted' /\ CountersWithinLimits'
    BY <2>2, ReleaseAccounted
  <2>3. ASSUME NEW a \in Attempts,
               \/ Request(a) \/ Arm(a) \/ Refuse(a)
               \/ Sleep(a) \/ Abandon(a) \/ NotifyWaiters(a)
        PROVE  PermitsAccounted' /\ CountersWithinLimits'
    <3>1. Holders' = Holders /\ UNCHANGED <<running, memory_mb>>
      BY <2>3, OtherHolders DEF AccountingInv
    <3>2. QED
      BY <3>1, OtherAccounted
  <2>4. CASE UNCHANGED admissionVars
    <3>1. Holders' = Holders /\ UNCHANGED <<running, memory_mb>>
      BY <2>4 DEF admissionVars, Holders
    <3>2. QED
      BY <3>1, OtherAccounted
  <2>5. QED
    BY <2>1, <2>2, <2>3, <2>4 DEF Next
<1>2. QED
  BY <1>1, AccountingInit, Typing, PTL DEF Spec

\* No permit leaks and none is returned twice: the counters under the mutex
\* always equal the permits that are out.
THEOREM AccountsMatchPermits == Spec => []PermitsAccounted
<1>1. AccountingInv => PermitsAccounted
  BY DEF AccountingInv
<1>2. QED
  BY <1>1, Accounting, PTL

\* The semaphore's instance of FiniteSets counts as this module's does.
LEMMA SameCardinality == \A S : Semaphore!Cardinality(S) = Cardinality(S)
BY DEF Semaphore!Cardinality, Cardinality

\* Within the limits, permits and sums agree.
LEMMA AccountingGivesLimits ==
  ASSUME AccountingInv
  PROVE  WithinLimits
<1>1. Cardinality(Holders) <= MaxConcurrency
  BY DEF AccountingInv, PermitsAccounted, CountersWithinLimits
<1>2. MaxMemory # NoLimit => Cardinality(Semaphore!Units(Holders)) <= MaxMemory
  <2>1. MaxMemory # NoLimit => memory_mb <= MaxMemory
    BY DEF AccountingInv, CountersWithinLimits
  <2>2. memory_mb = Cardinality(Semaphore!Units(Holders))
    BY DEF AccountingInv, PermitsAccounted
  <2>3. QED
    BY <2>1, <2>2
<1>3. QED
  BY <1>1, <1>2, SameCardinality DEF WithinLimits, Semaphore!Allowed

\* The attempts that run at one time never exceed the concurrency limit, nor
\* their grants the memory ceiling.
THEOREM LimitsHold == Spec => []WithinLimits
<1>1. AccountingInv => WithinLimits
  BY AccountingGivesLimits
<1>2. QED
  BY <1>1, Accounting, PTL

\* Two attempts that both hold a permit hold disjoint units of the ceiling.
LEMMA TwoHoldersFit ==
  ASSUME AccountingInv, MaxMemory # NoLimit,
         NEW a \in Holders, NEW b \in Holders, a # b
  PROVE  Grant(a) + Grant(b) <= MaxMemory
<1> DEFINE Rest == (Holders \ {a}) \ {b}
<1>1. /\ Holders \subseteq Attempts
      /\ Holders \ {a} \subseteq Attempts
      /\ Rest \subseteq Attempts
      /\ b \in Holders \ {a}
  BY HoldersFinite
<1>2. Cardinality(Semaphore!Units(Holders \ {a}))
        = Cardinality(Semaphore!Units(Holders)) - Grant(a)
  BY <1>1, UnitsRemove
<1>3. Cardinality(Semaphore!Units(Rest))
        = Cardinality(Semaphore!Units(Holders \ {a})) - Grant(b)
  BY <1>1, UnitsRemove
<1>4. Cardinality(Semaphore!Units(Rest)) \in Nat
  BY <1>1, UnitsFinite
<1>5. Cardinality(Semaphore!Units(Holders)) <= MaxMemory
  <2>1. memory_mb = Cardinality(Semaphore!Units(Holders)) /\ memory_mb <= MaxMemory
    BY DEF AccountingInv, PermitsAccounted, CountersWithinLimits
  <2>2. QED
    BY <2>1
<1>6. Cardinality(Semaphore!Units(Holders)) \in Nat
  BY <1>1, UnitsFinite
<1>7. Grant(a) \in Nat /\ Grant(b) \in Nat /\ MaxMemory \in Nat
  BY <1>1, GrantBounds
<1> HIDE DEF Rest
<1>8. QED
  BY <1>2, <1>3, <1>4, <1>5, <1>6, <1>7

\* An attempt that declares more than the ceiling is admitted only when nobody
\* else holds a permit, and keeps everybody out while it runs.
THEOREM OversizedAlone == Spec => []OversizedRunsAlone
<1>1. AccountingInv => OversizedRunsAlone
  <2> SUFFICES ASSUME AccountingInv, MaxMemory # NoLimit,
                      NEW a \in Holders, Memory[a] > MaxMemory,
                      NEW b \in Holders, b # a
               PROVE  FALSE
    BY DEF OversizedRunsAlone
  <2>1. a \in Attempts /\ b \in Attempts
    BY DEF Holders
  <2>2. Grant(a) + Grant(b) <= MaxMemory
    BY TwoHoldersFit
  <2>3. Grant(a) = MaxMemory
    BY <2>1, AdmissionAssumption DEF Grant
  <2>4. Grant(b) \in 1 .. MaxMemory /\ MaxMemory \in Nat
    BY <2>1, GrantBounds
  <2>5. QED
    BY <2>2, <2>3, <2>4
<1>2. QED
  BY <1>1, Accounting, PTL

-----------------------------------------------------------------------------
(* No lost wake-up *)

\* A caller whose check failed is no better off until it sleeps than once it
\* does: the strengthening that makes NoLostWakeup inductive.
RefusedInv ==
  \A a \in Attempts :
    (pc[a] \in {"refused", "waiting"} /\ a \notin signalled /\ Fits(a))
      => \E b \in Attempts : pc[b] = "releasing"

\* The wake-up argument of acquire and Drop, step by step: a check that fails
\* leaves a caller that does not fit, room appears only in Release, and the
\* notify_waiters that follows reaches every future created before it.
THEOREM WakeupsReachSleepers == Spec => []NoLostWakeup
<1>1. Init => RefusedInv
  BY DEF Init, RefusedInv
<1>2. TypeOK /\ RefusedInv /\ [Next]_admissionVars => RefusedInv'
  <2> SUFFICES ASSUME TypeOK, RefusedInv, [Next]_admissionVars,
                      NEW w \in Attempts,
                      pc'[w] \in {"refused", "waiting"}, w \notin signalled', Fits(w)'
               PROVE  \E b \in Attempts : pc'[b] = "releasing"
    BY DEF RefusedInv
  <2>1. (pc[w] \in {"refused", "waiting"} /\ w \notin signalled /\ Fits(w))
          => \E b \in Attempts : pc[b] = "releasing"
    BY DEF RefusedInv
  <2>2. ASSUME NEW a \in Attempts, Request(a)
        PROVE  \E b \in Attempts : pc'[b] = "releasing"
    BY <2>1, <2>2 DEF TypeOK, Request, Fits
  <2>3. ASSUME NEW a \in Attempts, Arm(a)
        PROVE  \E b \in Attempts : pc'[b] = "releasing"
    BY <2>1, <2>3 DEF TypeOK, Arm, Fits
  <2>4. ASSUME NEW a \in Attempts, Admit(a)
        PROVE  \E b \in Attempts : pc'[b] = "releasing"
    <3>1. w # a /\ pc[w] \in {"refused", "waiting"} /\ w \notin signalled
      BY <2>4 DEF TypeOK, Admit
    <3>2. Fits(w)
      BY <2>4, GrantBounds, AdmissionAssumption DEF TypeOK, Admit, Fits
    <3>3. QED
      BY <2>1, <2>4, <3>1, <3>2 DEF TypeOK, Admit
  <2>5. ASSUME NEW a \in Attempts, Sleep(a)
        PROVE  \E b \in Attempts : pc'[b] = "releasing"
    BY <2>1, <2>5 DEF TypeOK, Sleep, Fits
  <2>6. ASSUME NEW a \in Attempts, Refuse(a)
        PROVE  \E b \in Attempts : pc'[b] = "releasing"
    BY <2>1, <2>6 DEF TypeOK, Refuse, Fits
  <2>7. ASSUME NEW a \in Attempts, Abandon(a)
        PROVE  \E b \in Attempts : pc'[b] = "releasing"
    BY <2>1, <2>7 DEF TypeOK, Abandon, Fits
  <2>8. ASSUME NEW a \in Attempts, Release(a)
        PROVE  \E b \in Attempts : pc'[b] = "releasing"
    BY <2>8 DEF TypeOK, Release
  <2>9. ASSUME NEW a \in Attempts, NotifyWaiters(a)
        PROVE  \E b \in Attempts : pc'[b] = "releasing"
    <3>1. pc[w] \in {"refused", "waiting"}
      BY <2>9 DEF TypeOK, NotifyWaiters
    <3>2. w \in signalled'
      BY <2>9, <3>1 DEF NotifyWaiters, Listening
    <3>3. QED
      BY <3>2
  <2>10. CASE UNCHANGED admissionVars
    BY <2>1, <2>10 DEF admissionVars, Fits
  <2>11. QED
    BY <2>2, <2>3, <2>4, <2>5, <2>6, <2>7, <2>8, <2>9, <2>10 DEF Next
<1>3. RefusedInv => NoLostWakeup
  BY DEF RefusedInv, NoLostWakeup
<1>4. QED
  BY <1>1, <1>2, <1>3, Typing, PTL DEF Spec

-----------------------------------------------------------------------------
(* Refinement *)

\* The mutex, the counters and the notifications together implement the
\* weighted semaphore: a step of the controller acquires within the limits,
\* releases, or leaves the holders alone.
THEOREM Refinement == Spec => ImplementsSemaphore
<1>1. Init => Semaphore!Init
  BY DEF Init, Semaphore!Init, Holders
<1>2. AccountingInv /\ AccountingInv' /\ [Next]_admissionVars
        => [Semaphore!Next]_Holders
  <2> SUFFICES ASSUME AccountingInv, AccountingInv', [Next]_admissionVars
               PROVE  [Semaphore!Next]_Holders
    OBVIOUS
  <2>1. ASSUME NEW a \in Attempts, Admit(a)
        PROVE  Semaphore!Acquire(a)
    <3>1. a \notin Holders /\ Holders' = Holders \union {a}
      BY <2>1, AdmitHolders DEF AccountingInv
    <3>2. Cardinality(Holders') <= MaxConcurrency
      BY DEF AccountingInv, PermitsAccounted, CountersWithinLimits
    <3>3. MaxMemory # NoLimit => Cardinality(Semaphore!Units(Holders')) <= MaxMemory
      <4>1. MaxMemory # NoLimit => memory_mb' <= MaxMemory
        BY DEF AccountingInv, CountersWithinLimits
      <4>2. memory_mb' = Cardinality(Semaphore!Units(Holders'))
        BY DEF AccountingInv, PermitsAccounted
      <4>3. QED
        BY <4>1, <4>2
    <3>4. Semaphore!Allowed(Holders \union {a})
      BY <3>1, <3>2, <3>3, SameCardinality DEF Semaphore!Allowed
    <3>5. QED
      BY <3>1, <3>4 DEF Semaphore!Acquire
  <2>2. ASSUME NEW a \in Attempts, Release(a)
        PROVE  Semaphore!Release(a)
    BY <2>2, ReleaseHolders DEF AccountingInv, Semaphore!Release
  <2>3. ASSUME NEW a \in Attempts,
               \/ Request(a) \/ Arm(a) \/ Refuse(a)
               \/ Sleep(a) \/ Abandon(a) \/ NotifyWaiters(a)
        PROVE  Holders' = Holders
    BY <2>3, OtherHolders DEF AccountingInv
  <2>4. CASE UNCHANGED admissionVars
    BY <2>4 DEF admissionVars, Holders
  <2>5. QED
    BY <2>1, <2>2, <2>3, <2>4 DEF Next, Semaphore!Next
<1>3. QED
  BY <1>1, <1>2, Accounting, PTL DEF Spec, ImplementsSemaphore, Semaphore!Spec
-----------------------------------------------------------------------------
(* RunTasks: batches over the controller *)

\* The inputs of a batch are different attempts.
LEMMA BatchPosition ==
  /\ Len(Batch) \in Nat /\ DOMAIN Batch = 1 .. Len(Batch)
  /\ \A i \in 1 .. Len(Batch) : Batch[i] \in Attempts
  /\ \A i, j \in 1 .. Len(Batch) : Batch[i] = Batch[j] => i = j
BY BatchAssumption DEF IsInjective

\* Appending what is not there yet.
LEMMA AppendFacts ==
  ASSUME NEW S, NEW s \in Seq(S), NEW x \in S, x \notin Range(s), IsInjective(s)
  PROVE  /\ Append(s, x) \in Seq(S)
         /\ Range(Append(s, x)) = Range(s) \union {x}
         /\ IsInjective(Append(s, x))
<1>1. PICK t : t = Append(s, x)
  OBVIOUS
<1>2. /\ t \in Seq(S) /\ DOMAIN s = 1 .. Len(s) /\ DOMAIN t = 1 .. Len(s) + 1 /\ Len(s) \in Nat
      /\ \A i \in 1 .. Len(s) : t[i] = s[i]
      /\ t[Len(s) + 1] = x
  BY <1>1
<1>3. Range(t) = Range(s) \union {x}
  BY <1>2 DEF Range
<1>4. \A i \in 1 .. Len(s) : s[i] \in Range(s)
  BY <1>2 DEF Range
<1>5. IsInjective(t)
  BY <1>2, <1>4 DEF IsInjective
<1> QED
  BY <1>1, <1>2, <1>3, <1>5

\* A step of a batch or of a direct caller is a step of the controller, or none:
\* all that is proved of the controller holds of it under run_tasks.
THEOREM BatchesUseTheController == RunSpec => Spec
<1>1. RunInit => Init /\ next_input \in Nat \ {0}
  BY DEF RunInit
<1>2. next_input \in Nat \ {0} /\ [RunNext]_vars => (next_input \in Nat \ {0})'
  BY DEF RunNext, StartInput, Return, DirectRequest, DirectAbandon, DirectReturn, PollAcquire,
     CollectResult, FinishTask, vars, runVars
<1>3. next_input \in Nat \ {0} /\ [RunNext]_vars => [Next]_admissionVars
  <2> SUFFICES ASSUME next_input \in Nat \ {0}, [RunNext]_vars PROVE [Next]_admissionVars
    OBVIOUS
  <2>1. CASE StartInput
    <3>1. next_input \in 1 .. Len(Batch)
      BY <2>1, BatchPosition DEF StartInput, WindowOpen
    <3>2. Request(Batch[next_input]) /\ Batch[next_input] \in Attempts
      BY <2>1, <3>1, BatchPosition DEF StartInput
    <3> QED
      BY <3>2 DEF Next
  <2>2. CASE Return \/ UNCHANGED vars
    BY <2>2 DEF Return, vars
  <2>3. ASSUME NEW a \in Attempts,
               \/ DirectRequest(a) \/ DirectAbandon(a) \/ DirectReturn(a)
               \/ PollAcquire(a) \/ CollectResult(a)
               \/ \E result \in {"ok", "error"} : FinishTask(a, result)
        PROVE  Next
    BY <2>3 DEF DirectRequest, DirectAbandon, DirectReturn, PollAcquire, CollectResult, FinishTask, Next
  <2> QED
    BY <2>1, <2>2, <2>3 DEF RunNext
<1> QED
  BY <1>1, <1>2, <1>3, PTL DEF RunSpec, Spec

\* Every variable of a batch keeps its type.
RunTypeOK ==
  /\ outcome \in [Attempts -> {"none", "ok", "error"}]
  /\ next_input \in 1 .. Len(Batch) + 1
  /\ results \in Seq(1 .. Len(Batch))
  /\ first_error \in 0 .. Len(Batch)

\* Where the input of each position stands.
PositionInv(i) ==
  /\ pc[Batch[i]] = "idle" <=> next_input <= i
  /\ outcome[Batch[i]] # "none" <=> pc[Batch[i]] \in {"releasing", "done"}
  /\ i \in Range(results) <=> pc[Batch[i]] = "done" /\ outcome[Batch[i]] = "ok"

\* What the collecting loop has, and what it has returned.
CollectInv ==
  /\ IsInjective(results)
  /\ first_error # 0 <=> \E i \in 1 .. Len(Batch) :
                           pc[Batch[i]] = "done" /\ outcome[Batch[i]] = "error"
  /\ returned # Pending =>
       /\ \A i \in 1 .. Len(Batch) : pc[Batch[i]] = "done"
       /\ returned = IF first_error # 0
                     THEN [kind |-> "error", indices |-> <<first_error>>]
                     ELSE [kind |-> "ok", indices |-> InIndexOrder(results)]

\* The inductive invariant of a batch.
RunInv ==
  /\ RunTypeOK
  /\ \A i \in 1 .. Len(Batch) : PositionInv(i)
  /\ CollectInv

\* A caller that is not in the batch, or that does not start or end.
LEMMA PollKeeps ==
  ASSUME TypeOK, RunInv, NEW a \in Attempts, NEW next \in Step,
         pc' = [pc EXCEPT ![a] = next], UNCHANGED runVars,
         InBatch(a) => /\ pc[a] \notin {"idle", "releasing", "done"}
                       /\ next \notin {"idle", "releasing", "done"}
  PROVE  RunInv'
<1>1. /\ \A i \in 1 .. Len(Batch) : Batch[i] \in Attempts /\ (Batch[i] = a => InBatch(a))
      /\ UNCHANGED <<outcome, next_input, results, first_error, returned>>
  BY BatchPosition DEF InBatch, Range, runVars
<1>2. \A i \in 1 .. Len(Batch) :
        \/ pc'[Batch[i]] = pc[Batch[i]]
        \/ /\ pc[Batch[i]] \notin {"idle", "releasing", "done"}
           /\ pc'[Batch[i]] \notin {"idle", "releasing", "done"}
  BY <1>1 DEF TypeOK
<1>3. RunTypeOK'
  BY <1>1 DEF RunInv, RunTypeOK
<1>4. \A i \in 1 .. Len(Batch) : PositionInv(i)'
  BY <1>1, <1>2 DEF RunInv, PositionInv
<1>5. CollectInv'
  BY <1>1, <1>2 DEF RunInv, CollectInv, InIndexOrder
<1> QED
  BY <1>3, <1>4, <1>5 DEF RunInv

\* Inputs start in order.
LEMMA StartKeeps ==
  ASSUME TypeOK, RunInv, StartInput
  PROVE  RunInv'
<1>1. /\ next_input \in 1 .. Len(Batch) /\ Batch[next_input] \in Attempts /\ Len(Batch) \in Nat
      /\ pc[Batch[next_input]] = "idle"
      /\ pc' = [pc EXCEPT ![Batch[next_input]] = "ready"]
      /\ next_input' = next_input + 1
      /\ UNCHANGED <<outcome, results, first_error, returned>>
  BY BatchPosition DEF StartInput, WindowOpen, Request, RunInv, RunTypeOK
<1>2. \A i \in 1 .. Len(Batch) :
        /\ i # next_input => pc'[Batch[i]] = pc[Batch[i]]
        /\ i = next_input => pc'[Batch[i]] = "ready"
  BY <1>1, BatchPosition DEF TypeOK
<1>3. RunTypeOK'
  BY <1>1 DEF RunInv, RunTypeOK
<1>4. \A i \in 1 .. Len(Batch) : PositionInv(i)'
  BY <1>1, <1>2 DEF RunInv, PositionInv
<1>5. CollectInv'
  BY <1>1, <1>2 DEF RunInv, CollectInv, InIndexOrder
<1> QED
  BY <1>3, <1>4, <1>5 DEF RunInv

\* A task that ends leaves its result in its own place.
LEMMA FinishKeeps ==
  ASSUME TypeOK, RunInv, NEW a \in Attempts, NEW result \in {"ok", "error"}, FinishTask(a, result)
  PROVE  RunInv'
<1>1. /\ pc[a] = "running" /\ pc' = [pc EXCEPT ![a] = "releasing"]
      /\ outcome' = [outcome EXCEPT ![a] = result]
      /\ UNCHANGED <<next_input, results, first_error, returned>>
  BY DEF FinishTask, Release
<1>2. \A i \in 1 .. Len(Batch) :
        /\ Batch[i] # a => pc'[Batch[i]] = pc[Batch[i]] /\ outcome'[Batch[i]] = outcome[Batch[i]]
        /\ Batch[i] = a => /\ pc[Batch[i]] = "running" /\ pc'[Batch[i]] = "releasing"
                           /\ outcome'[Batch[i]] = result
  BY <1>1, BatchPosition DEF TypeOK, RunInv, RunTypeOK
<1>3. RunTypeOK'
  BY <1>1 DEF RunInv, RunTypeOK
<1>4. \A i \in 1 .. Len(Batch) : PositionInv(i)'
  BY <1>1, <1>2 DEF RunInv, PositionInv
<1>5. CollectInv'
  BY <1>1, <1>2 DEF RunInv, CollectInv, InIndexOrder
<1> QED
  BY <1>3, <1>4, <1>5 DEF RunInv

\* Each result is taken once, at the position of its input.
LEMMA CollectKeeps ==
  ASSUME TypeOK, RunInv, NEW a \in Attempts, CollectResult(a)
  PROVE  RunInv'
<1>1. PICK n \in 1 .. Len(Batch) : Batch[n] = a /\ IndexOf(a) = n
  BY BatchPosition DEF CollectResult, InBatch, IndexOf, Range
<1>2. /\ pc[a] = "releasing" /\ pc' = [pc EXCEPT ![a] = "done"]
      /\ UNCHANGED <<outcome, next_input, returned>> /\ Len(Batch) \in Nat
  BY BatchPosition DEF CollectResult, NotifyWaiters
<1>3. \A i \in 1 .. Len(Batch) :
        /\ i # n => pc'[Batch[i]] = pc[Batch[i]]
        /\ i = n => pc[Batch[i]] = "releasing" /\ pc'[Batch[i]] = "done"
  BY <1>1, <1>2, BatchPosition DEF TypeOK
<1>4. n \notin Range(results) /\ returned = Pending
  BY <1>1, <1>2 DEF RunInv, PositionInv, CollectInv
<1>5. CASE outcome[a] = "ok" /\ results' = Append(results, n) /\ UNCHANGED first_error
  <2>1. /\ results' \in Seq(1 .. Len(Batch)) /\ Range(results') = Range(results) \union {n}
        /\ IsInjective(results')
    BY <1>1, <1>4, <1>5, AppendFacts DEF RunInv, RunTypeOK, CollectInv
  <2>2. RunTypeOK'
    BY <1>2, <1>5, <2>1 DEF RunInv, RunTypeOK
  <2>3. \A i \in 1 .. Len(Batch) : PositionInv(i)'
    BY <1>1, <1>2, <1>3, <1>5, <2>1 DEF RunInv, PositionInv
  <2>4. CollectInv'
    BY <1>1, <1>2, <1>3, <1>4, <1>5, <2>1 DEF RunInv, CollectInv
  <2> QED
    BY <2>2, <2>3, <2>4 DEF RunInv
<1>6. CASE /\ outcome[a] = "error"
           /\ first_error' = IF first_error = 0 THEN n ELSE first_error
           /\ UNCHANGED results
  <2>1. RunTypeOK' /\ first_error' # 0
    BY <1>1, <1>2, <1>6 DEF RunInv, RunTypeOK
  <2>2. \A i \in 1 .. Len(Batch) : PositionInv(i)'
    BY <1>1, <1>2, <1>3, <1>6 DEF RunInv, PositionInv
  <2>3. CollectInv'
    BY <1>1, <1>2, <1>3, <1>4, <1>6, <2>1 DEF RunInv, CollectInv
  <2> QED
    BY <2>1, <2>2, <2>3 DEF RunInv
<1> QED
  BY <1>1, <1>5, <1>6 DEF CollectResult

\* Returning changes only what is returned.
LEMMA ReturnKeeps ==
  ASSUME TypeOK, RunInv, Return
  PROVE  RunInv'
<1>1. /\ UNCHANGED <<pc, outcome, next_input, results, first_error>>
      /\ next_input > Len(Batch) /\ InFlight = {}
      /\ returned' = IF first_error # 0
                     THEN [kind |-> "error", indices |-> <<first_error>>]
                     ELSE [kind |-> "ok", indices |-> InIndexOrder(results)]
  BY DEF Return, BatchDrained, admissionVars
<1>2. \A i \in 1 .. Len(Batch) : pc[Batch[i]] = "done"
  BY <1>1, BatchPosition DEF InFlight, RunInv, RunTypeOK, PositionInv
<1>3. RunTypeOK' /\ \A i \in 1 .. Len(Batch) : PositionInv(i)'
  BY <1>1 DEF RunInv, RunTypeOK, PositionInv
<1>4. CollectInv'
  BY <1>1, <1>2 DEF RunInv, CollectInv, InIndexOrder
<1> QED
  BY <1>3, <1>4 DEF RunInv

\* The invariant of a batch holds in every behaviour.
LEMMA RunInvariant == RunSpec => []RunInv
<1>1. RunInit => RunInv
  <2> SUFFICES ASSUME RunInit PROVE RunInv
    OBVIOUS
  <2>1. RunTypeOK
    BY BatchPosition DEF RunInit, RunTypeOK
  <2>2. Range(results) = {} /\ IsInjective(results)
    BY DEF RunInit, Range, IsInjective
  <2>3. \A i \in 1 .. Len(Batch) : PositionInv(i)
    BY <2>2, BatchPosition DEF RunInit, Init, PositionInv
  <2>4. CollectInv
    BY <2>2, BatchPosition DEF RunInit, Init, CollectInv
  <2> QED
    BY <2>1, <2>3, <2>4 DEF RunInv
<1>2. TypeOK /\ RunInv /\ [RunNext]_vars => RunInv'
  <2> SUFFICES ASSUME TypeOK, RunInv, [RunNext]_vars PROVE RunInv'
    OBVIOUS
  <2>1. CASE UNCHANGED vars
    BY <2>1 DEF RunInv, RunTypeOK, PositionInv, CollectInv, InIndexOrder, vars, admissionVars, runVars
  <2>2. ASSUME NEW a \in Attempts, DirectRequest(a) \/ DirectAbandon(a) \/ DirectReturn(a)
        PROVE  RunInv'
    <3>1. PICK next \in Step : pc' = [pc EXCEPT ![a] = next]
      BY <2>2 DEF DirectRequest, DirectAbandon, DirectReturn, Request, Abandon, NotifyWaiters, Step
    <3>2. ~InBatch(a) /\ UNCHANGED runVars
      BY <2>2 DEF DirectRequest, DirectAbandon, DirectReturn, Direct, InBatch
    <3> QED
      BY <3>1, <3>2, PollKeeps
  <2>3. ASSUME NEW a \in Attempts, PollAcquire(a) PROVE RunInv'
    <3>1. PICK next \in {"armed", "running", "refused", "waiting"} : pc' = [pc EXCEPT ![a] = next]
      BY <2>3 DEF PollAcquire, Arm, Admit, Refuse, Sleep
    <3>2. pc[a] \notin {"idle", "releasing", "done"} /\ UNCHANGED runVars
      BY <2>3 DEF PollAcquire, Arm, Admit, Refuse, Sleep
    <3> QED
      BY <3>1, <3>2, PollKeeps DEF Step
  <2> QED
    BY <2>1, <2>2, <2>3, StartKeeps, FinishKeeps, CollectKeeps, ReturnKeeps DEF RunNext
<1>3. RunSpec => []TypeOK
  BY BatchesUseTheController, Typing, PTL
<1> QED
  BY <1>1, <1>2, <1>3, PTL DEF RunSpec

\* The only increasing order of the positions is theirs: the least one out of
\* its place would be somewhere after it, and the one there in turn before.
LEMMA OneOrder ==
  ASSUME NEW n \in Nat, NEW s \in [1 .. n -> 1 .. n], Range(s) = 1 .. n,
         \A i, j \in 1 .. n : i < j => s[i] < s[j]
  PROVE  s = [i \in 1 .. n |-> i]
<1>1. PICK T : T = {i \in 1 .. n : s[i] # i}
  OBVIOUS
<1>2. SUFFICES ASSUME T # {} PROVE FALSE
  BY <1>1
<1>3. T \subseteq Nat
  BY <1>1
<1>4. PICK m \in T : \A k \in T : <<k, m>> \notin OpToRel(<, Nat)
  BY <1>2, <1>3, NatLessThanWellFounded, WFMin, Zenon
<1>5. m \in 1 .. n /\ s[m] \in 1 .. n /\ s[m] # m
  BY <1>1
<1>6. ASSUME NEW k \in 1 .. n, k < m PROVE s[k] = k
  <2>1. <<k, m>> \in OpToRel(<, Nat)
    BY <1>5, <1>6 DEF OpToRel
  <2>2. k \notin T
    BY <1>4, <2>1
  <2> QED
    BY <1>1, <2>2
<1>7. CASE s[m] < m
  BY <1>5, <1>6, <1>7
<1>8. CASE m < s[m]
  <2>1. PICK k \in 1 .. n : s[k] = m
    BY <1>5 DEF Range
  <2>2. k # m /\ ~(k < m) /\ ~(m < k)
    BY <1>5, <1>6, <1>8, <2>1
  <2> QED
    BY <1>5, <2>2
<1> QED
  BY <1>5, <1>7, <1>8

\* Every input once, in the order of the batch.
LEMMA AllInOrder ==
  ASSUME NEW s \in Seq(1 .. Len(Batch)), IsInjective(s), Range(s) = 1 .. Len(Batch)
  PROVE  InIndexOrder(s) = [i \in DOMAIN Batch |-> i]
<1>1. PICK n \in Nat : n = Len(Batch) /\ DOMAIN Batch = 1 .. n
  BY BatchPosition
<1>2. Len(s) = n
  <2>1. s \in Bijection(1 .. Len(s), 1 .. n)
    BY <1>1 DEF Bijection, Injection, Surjection, Range, IsInjective
  <2>2. PICK m \in Nat : m = Len(s)
    OBVIOUS
  <2>3. IsFiniteSet(1 .. m) /\ Cardinality(1 .. m) = m /\ Cardinality(1 .. n) = n
    BY FS_Interval
  <2>4. ExistsBijection(1 .. m, 1 .. n)
    BY <2>1, <2>2 DEF ExistsBijection
  <2>5. Cardinality(1 .. n) = m
    BY <2>4, FS_CountingElements
  <2> QED
    BY <2>2, <2>3, <2>5
<1>3. PICK identity : identity = [i \in 1 .. n |-> i]
  OBVIOUS
<1>4. /\ identity \in [1 .. n -> 1 .. n] /\ Range(identity) = 1 .. n
      /\ \A i, j \in 1 .. n : i < j => identity[i] < identity[j]
  BY <1>3 DEF Range
<1>5. DOMAIN s = 1 .. n /\ Range(s) = 1 .. n
  BY <1>1, <1>2
<1>6. /\ InIndexOrder(s) \in [1 .. n -> 1 .. n]
      /\ Range(InIndexOrder(s)) = 1 .. n
      /\ \A i, j \in 1 .. n : i < j => InIndexOrder(s)[i] < InIndexOrder(s)[j]
  <2>1. \E sorted \in [1 .. n -> 1 .. n] :
          /\ Range(sorted) = 1 .. n
          /\ \A i, j \in DOMAIN sorted : i < j => sorted[i] < sorted[j]
    BY <1>4
  <2> QED
    BY <1>5, <2>1 DEF InIndexOrder
<1> QED
  BY <1>1, <1>6, OneOrder

\* However attempts were admitted, overtaken and woken, a call of run_tasks
\* returns when all of its inputs have ended, fails if one of them did, and else
\* has the result of every input once and in order.
THEOREM WholeBatches == RunSpec => []WholeBatchReturned
<1>1. RunInv => WholeBatchReturned
  <2> SUFFICES ASSUME RunInv, returned # Pending
               PROVE  /\ \A i \in DOMAIN Batch : outcome[Batch[i]] # "none"
                      /\ returned.kind = "error" <=> \E i \in DOMAIN Batch : outcome[Batch[i]] = "error"
                      /\ returned.kind = "ok" => returned.indices = [i \in DOMAIN Batch |-> i]
    BY DEF WholeBatchReturned
  <2>1. /\ \A i \in 1 .. Len(Batch) : pc[Batch[i]] = "done" /\ outcome[Batch[i]] # "none"
        /\ DOMAIN Batch = 1 .. Len(Batch)
    BY BatchPosition DEF RunInv, PositionInv, CollectInv
  <2>2. \A i \in 1 .. Len(Batch) : outcome[Batch[i]] \in {"ok", "error"}
    BY <2>1, BatchPosition DEF RunInv, RunTypeOK
  <2>3. first_error # 0 <=> \E i \in DOMAIN Batch : outcome[Batch[i]] = "error"
    BY <2>1 DEF RunInv, CollectInv
  <2>4. returned.kind = "error" <=> first_error # 0
    BY DEF RunInv, CollectInv
  <2>5. ASSUME first_error = 0 PROVE returned.indices = [i \in DOMAIN Batch |-> i]
    <3>1. \A i \in 1 .. Len(Batch) : i \in Range(results)
      BY <2>1, <2>2, <2>3, <2>5 DEF RunInv, PositionInv
    <3>2. Range(results) \subseteq 1 .. Len(Batch)
      BY DEF RunInv, RunTypeOK, Range
    <3>3. Range(results) = 1 .. Len(Batch)
      BY <3>1, <3>2
    <3>4. returned.indices = InIndexOrder(results)
      BY <2>5 DEF RunInv, CollectInv
    <3> QED
      BY <3>3, <3>4, AllInOrder DEF RunInv, RunTypeOK, CollectInv
  <2>6. returned.kind = "ok" => first_error = 0
    BY DEF RunInv, CollectInv
  <2> QED
    BY <2>1, <2>3, <2>4, <2>5, <2>6
<1> QED
  BY <1>1, RunInvariant, PTL

-----------------------------------------------------------------------------
(* The history of jobs: what holds of it and what a step may do to it *)

\* The program counters of a command.
QueueSteps == {"idle", "resolve", "bind", "persist", "attach", "run"}

\* What a command holds.
IsCommand(c) ==
  /\ c \in [step : QueueSteps, args : Commands \union {None}, tasks : SUBSET Tasks,
            invocation : Invocations \union {None}, job : Jobs \union {None},
            alone : BOOLEAN]
  /\ c.step # "idle" => c.args \in Commands
  /\ IF c.step \in {"persist", "attach", "run"} THEN c.job \in Jobs ELSE c.job = None

\* The jobs are a sequence of job records, and every terminal has a command.
QueueTyped ==
  /\ jobs \in Seq({jobs[j] : j \in Jobs})
  /\ \A j \in Jobs : IsJob(jobs[j])
  /\ lastRun \in Jobs \union {None}
  /\ cmd = [p \in Terminals |-> cmd[p]]
  /\ \A p \in Terminals : IsCommand(cmd[p])

\* A job has its invocation.json before its result.json, and its source had a
\* result.json.
JobsInv ==
  \A j \in Jobs :
    /\ jobs[j].attached => jobs[j].invocation # None
    /\ ParentOf(j) # None => ParentOf(j) \in Jobs /\ jobs[ParentOf(j)].attached

\* The same of what a command is about to persist.
Prepared(c) ==
  /\ c.step \in {"bind", "persist"} =>
       /\ c.invocation # None
       /\ c.invocation.from # None =>
            c.invocation.from \in Jobs /\ jobs[c.invocation.from].attached
  /\ c.step \in {"attach", "run"} => jobs[c.job].invocation # None
  /\ c.step = "run" => jobs[c.job].attached

\* Every command is prepared for its next step.
CommandsInv == \A p \in Terminals : Prepared(cmd[p])

\* Jobs can be numbered so that every source comes before its reruns.
Ranks(rank) ==
  /\ rank \in [Jobs -> Nat]
  /\ \A j \in Jobs : ParentOf(j) # None => rank[ParentOf(j)] < rank[j]
Ranked == \E rank : Ranks(rank)

\* What a step may do to the jobs: start one, or give one that has no
\* invocation.json the one it keeps, whose source has a result.json.
JobsStay ==
  /\ Jobs \subseteq Jobs'
  /\ \A j \in Jobs :
       /\ jobs'[j].tasks = jobs[j].tasks
       /\ jobs[j].attached => jobs'[j].attached
       /\ jobs[j].invocation # None => jobs'[j].invocation = jobs[j].invocation
       /\ jobs'[j].attached => jobs'[j].invocation # None
       /\ jobs'[j].invocation # jobs[j].invocation /\ ParentOf(j)' # None =>
            ParentOf(j)' \in Jobs /\ jobs[ParentOf(j)'].attached
  /\ \A j \in Jobs' \ Jobs : jobs'[j].invocation = None /\ ~jobs'[j].attached

\* What a step keeps, its numbering of the jobs aside.
Keeps == QueueTyped' /\ JobsStay /\ CommandsInv'

\* The inductive invariant of the queue.
QueueInv == QueueTyped /\ JobsInv /\ CommandsInv /\ Ranked

-----------------------------------------------------------------------------
(* Lineages *)

\* What a lineage satisfies at each of its first m + 1 places.
ClimbsTo(up, j, m) ==
  up = [n \in 0 .. m |->
          IF n = 0 THEN j ELSE IF up[n - 1] = None THEN None ELSE ParentOf(up[n - 1])]

\* A lineage is a recursive function, and there is one of every length.
LEMMA ClimbsExist ==
  \A j : \A m \in Nat : \E up : ClimbsTo(up, j, m)
<1> SUFFICES ASSUME NEW j, NEW m \in Nat, ~\E up : ClimbsTo(up, j, m) PROVE FALSE
  OBVIOUS
<1> DEFINE T == {n \in Nat : ~\E up : ClimbsTo(up, j, n)}
<1>1. PICK n \in T : \A k \in T : <<k, n>> \notin OpToRel(<, Nat)
  <2>1. T \subseteq Nat /\ m \in T
    OBVIOUS
  <2> QED
    BY <2>1, NatLessThanWellFounded, WFMin, Zenon
<1>2. n \in Nat /\ ~\E up : ClimbsTo(up, j, n)
  BY <1>1
<1>3. n # 0
  <2>1. ClimbsTo([k \in 0 .. 0 |-> j], j, 0)
    BY DEF ClimbsTo
  <2> QED
    BY <1>2, <2>1
<1>4. PICK up : ClimbsTo(up, j, n - 1)
  <2>1. n - 1 \in Nat /\ n - 1 < n
    BY <1>2, <1>3
  <2>2. n - 1 \notin T
    <3>1. n - 1 \in T => <<n - 1, n>> \in OpToRel(<, Nat)
      BY <1>2, <2>1 DEF OpToRel
    <3> QED
      BY <3>1, <1>1
  <2> QED
    BY <2>1, <2>2
<1> DEFINE more == [k \in 0 .. n |->
                      IF k < n THEN up[k]
                      ELSE IF up[n - 1] = None THEN None ELSE ParentOf(up[n - 1])]
<1>5. ClimbsTo(more, j, n)
  <2>1. \A k \in 0 .. n - 1 :
          up[k] = IF k = 0 THEN j
                  ELSE IF up[k - 1] = None THEN None ELSE ParentOf(up[k - 1])
    BY <1>4, <1>2, <1>3 DEF ClimbsTo
  <2>2. ASSUME NEW k \in 0 .. n
        PROVE  more[k] = IF k = 0 THEN j
                         ELSE IF more[k - 1] = None THEN None ELSE ParentOf(more[k - 1])
    <3>1. CASE k < n
      BY <3>1, <2>1, <1>2, <1>3
    <3>2. CASE k = n
      BY <3>2, <1>2, <1>3
    <3> QED
      BY <3>1, <3>2, <1>2
  <2> QED
    BY <2>2, Zenon DEF ClimbsTo
<1> QED
  BY <1>2, <1>5

\* Lineage is the one of length Len(jobs).
LEMMA LineageClimbs ==
  Len(jobs) \in Nat => \A j : ClimbsTo(Lineage(j), j, Len(jobs))
<1> SUFFICES ASSUME Len(jobs) \in Nat, NEW j PROVE ClimbsTo(Lineage(j), j, Len(jobs))
  OBVIOUS
<1>1. \E up : ClimbsTo(up, j, Len(jobs))
  BY ClimbsExist
<1>2. Lineage(j) = CHOOSE up : ClimbsTo(up, j, Len(jobs))
  BY DEF Lineage, ClimbsTo
<1> QED
  BY <1>1, <1>2

\* What a lineage holds, place by place.
LEMMA ClimbFacts ==
  ASSUME Len(jobs) \in Nat, Jobs = 1 .. Len(jobs), JobsInv, NEW j \in Jobs
  PROVE  /\ Lineage(j) = [n \in 0 .. Len(jobs) |-> Lineage(j)[n]]
         /\ Lineage(j)[0] = j
         /\ \A n \in 1 .. Len(jobs) :
              Lineage(j)[n] = IF Lineage(j)[n - 1] = None THEN None
                              ELSE ParentOf(Lineage(j)[n - 1])
         /\ \A n \in 0 .. Len(jobs) : Lineage(j)[n] # None => Lineage(j)[n] \in Jobs
<1> DEFINE up == Lineage(j)
<1>1. ClimbsTo(up, j, Len(jobs))
  BY LineageClimbs
<1>2. up = [n \in 0 .. Len(jobs) |-> up[n]] /\ up[0] = j
  BY <1>1 DEF ClimbsTo
<1>3. ASSUME NEW n \in 1 .. Len(jobs)
      PROVE  up[n] = IF up[n - 1] = None THEN None ELSE ParentOf(up[n - 1])
  BY <1>1, <1>3 DEF ClimbsTo
<1>4. ASSUME NEW n \in 0 .. Len(jobs), up[n] # None, up[n] \notin Jobs PROVE FALSE
  <2> DEFINE T == {k \in 0 .. Len(jobs) : up[k] # None /\ up[k] \notin Jobs}
  <2>1. PICK m \in T : \A k \in T : <<k, m>> \notin OpToRel(<, Nat)
    <3>1. T \subseteq Nat /\ n \in T
      BY <1>4
    <3> QED
      BY <3>1, NatLessThanWellFounded, WFMin, Zenon
  <2>2. m # 0
    BY <2>1, <1>2
  <2> HIDE DEF up
  <2>3. m \in 1 .. Len(jobs) /\ m - 1 \in 0 .. Len(jobs) /\ m - 1 < m
    <3>1. m \in 0 .. Len(jobs)
      BY <2>1
    <3> HIDE DEF T
    <3> QED
      BY <3>1, <2>2
  <2>4. up[m - 1] # None /\ up[m] = ParentOf(up[m - 1])
    BY <2>3, <2>1, <1>3
  <2>5. up[m - 1] \in Jobs
    <3>1. m - 1 \in T => <<m - 1, m>> \in OpToRel(<, Nat)
      BY <2>3 DEF OpToRel
    <3> QED
      BY <3>1, <2>1, <2>3, <2>4
  <2> QED
    BY <2>4, <2>5, <2>1 DEF JobsInv
<1> HIDE DEF up
<1>5. \A n \in 0 .. Len(jobs) : up[n] # None => up[n] \in Jobs
  BY <1>4
<1>6. \A n \in 1 .. Len(jobs) :
        up[n] = IF up[n - 1] = None THEN None ELSE ParentOf(up[n - 1])
  BY <1>3
<1> QED
  BY <1>2, <1>5, <1>6 DEF up

\* Ranks fall along a lineage, so it is over before it has met more jobs than
\* there are.
LEMMA RanksEndLineages ==
  ASSUME Len(jobs) \in Nat, Jobs = 1 .. Len(jobs), JobsInv, Ranked
  PROVE  LineagesEnd
<1> SUFFICES ASSUME NEW j \in Jobs, Lineage(j)[Len(jobs)] # None PROVE FALSE
  BY DEF LineagesEnd, IsCycle
<1> DEFINE L == Len(jobs)
           up == Lineage(j)
<1>1. /\ up = [n \in 0 .. L |-> up[n]]
      /\ \A n \in 1 .. L : up[n] = IF up[n - 1] = None THEN None ELSE ParentOf(up[n - 1])
      /\ \A n \in 0 .. L : up[n] # None => up[n] \in Jobs
  BY ClimbFacts
<1>2. PICK rank : Ranks(rank)
  BY DEF Ranked
<1>3. L \in Nat /\ Jobs = 1 .. L /\ up[L] # None
  OBVIOUS
<1> HIDE DEF L, up
\* Counted from its end, so that the least counterexample is the last one.
<1>4. \A n \in 0 .. L : up[n] # None
  <2> SUFFICES ASSUME NEW n \in 0 .. L, up[n] = None PROVE FALSE
    OBVIOUS
  <2> DEFINE T == {k \in 0 .. L : up[L - k] = None}
  <2>1. PICK m \in T : \A k \in T : <<k, m>> \notin OpToRel(<, Nat)
    <3>1. L - n \in 0 .. L /\ L - (L - n) = n
      BY <1>3
    <3>2. T \subseteq Nat /\ L - n \in T
      BY <3>1
    <3> QED
      BY <3>2, NatLessThanWellFounded, WFMin, Zenon
  <2>2. m \in 0 .. L /\ up[L - m] = None
    BY <2>1
  <2>3. m # 0
    BY <2>2, <1>3
  <2>4. m - 1 \in 0 .. L /\ L - (m - 1) \in 1 .. L /\ (L - (m - 1)) - 1 = L - m
    BY <2>2, <2>3, <1>3
  <2>5. up[L - (m - 1)] = None
    BY <2>4, <2>2, <1>1
  <2>6. <<m - 1, m>> \in OpToRel(<, Nat)
    BY <2>2, <2>4 DEF OpToRel
  <2> QED
    BY <2>1, <2>4, <2>5, <2>6
<1>5. \A n \in 0 .. L : up[n] \in Jobs
  BY <1>1, <1>4
<1>6. \A n \in 1 .. L : rank[up[n]] < rank[up[n - 1]]
  <2> TAKE n \in 1 .. L
  <2>1. n \in 0 .. L /\ n - 1 \in 0 .. L
    BY <1>3
  <2>2. up[n] # None /\ up[n] = ParentOf(up[n - 1]) /\ up[n - 1] \in Jobs
    BY <2>1, <1>1, <1>4, <1>5
  <2> QED
    BY <2>2, <1>2 DEF Ranks
<1>7. ASSUME NEW m \in 0 .. L, NEW n \in 0 .. L, m < n, up[m] = up[n] PROVE FALSE
  <2> DEFINE T == {k \in 0 .. L : m < k /\ ~(rank[up[k]] < rank[up[m]])}
  <2>1. PICK k \in T : \A i \in T : <<i, k>> \notin OpToRel(<, Nat)
    <3>1. rank[up[m]] \in Nat
      BY <1>2, <1>5 DEF Ranks
    <3>2. T \subseteq Nat /\ n \in T
      BY <3>1, <1>7
    <3> QED
      BY <3>2, NatLessThanWellFounded, WFMin, Zenon
  <2>2. k \in 1 .. L /\ k - 1 \in 0 .. L /\ m <= k - 1 /\ m < k /\ ~(rank[up[k]] < rank[up[m]])
    <3>1. k \in 0 .. L /\ m < k /\ ~(rank[up[k]] < rank[up[m]])
      BY <2>1
    <3> HIDE DEF T
    <3> QED
      BY <3>1, <1>3
  <2>3. /\ rank[up[k]] \in Nat /\ rank[up[k - 1]] \in Nat /\ rank[up[m]] \in Nat
        /\ rank[up[k]] < rank[up[k - 1]]
    BY <2>2, <1>2, <1>5, <1>6 DEF Ranks
  <2>4. k - 1 # m
    BY <2>2, <2>3
  <2>5. k - 1 \notin T
    <3>1. k - 1 \in T => <<k - 1, k>> \in OpToRel(<, Nat)
      BY <2>2 DEF OpToRel
    <3> QED
      BY <3>1, <2>1
  <2>6. rank[up[k - 1]] < rank[up[m]]
    BY <2>5, <2>4, <2>2
  <2> QED
    BY <2>6, <2>3, <2>2
<1>8. PICK x \in 0 .. L, y \in 0 .. L : x # y /\ up[x] = up[y]
  <2>1. up \in [0 .. L -> 1 .. L]
    BY <1>1, <1>3, <1>5
  <2>2. /\ IsFiniteSet(0 .. L) /\ Cardinality(0 .. L) = L + 1
        /\ IsFiniteSet(1 .. L) /\ Cardinality(1 .. L) = L
    BY <1>3, FS_Interval
  <2> QED
    <3>1. Cardinality(1 .. L) < Cardinality(0 .. L)
      BY <2>2, <1>3
    <3> QED
      BY <2>1, <2>2, <3>1, FS_PigeonHole, Zenon
<1> QED
  BY <1>7, <1>8

-----------------------------------------------------------------------------
(* Jobs are records of a sequence *)

\* The jobs are numbered from 1.
LEMMA JobsForm ==
  ASSUME QueueTyped
  PROVE  Len(jobs) \in Nat /\ Jobs = 1 .. Len(jobs)
BY LenProperties DEF QueueTyped, Jobs

\* Starting a job changes no other.
LEMMA JobAppended ==
  ASSUME QueueTyped, NEW x, IsJob(x), jobs' = Append(jobs, x)
  PROVE  /\ Len(jobs') = Len(jobs) + 1 /\ Jobs' = Jobs \union {Len(jobs')}
         /\ \A j \in Jobs : jobs'[j] = jobs[j]
         /\ Len(jobs') \notin Jobs /\ jobs'[Len(jobs')] = x
         /\ jobs' \in Seq({jobs'[j] : j \in Jobs'})
         /\ \A j \in Jobs' : IsJob(jobs'[j])
<1> DEFINE S == {jobs[j] : j \in Jobs} \union {x}
<1>1. Len(jobs) \in Nat /\ Jobs = 1 .. Len(jobs)
  BY JobsForm
<1>2. jobs \in Seq(S)
  <2>1. jobs \in Seq({jobs[j] : j \in Jobs})
    BY DEF QueueTyped
  <2> QED
    BY <2>1, SeqMonotonic
<1>3. jobs' \in Seq(S) /\ Len(jobs') = Len(jobs) + 1
  BY <1>2
<1>4. Jobs' = 1 .. Len(jobs')
  BY <1>3, LenProperties DEF Jobs
<1>5. \A j \in Jobs : jobs'[j] = jobs[j]
  BY <1>1, <1>2
<1>6. jobs'[Len(jobs')] = x
  BY <1>1, <1>2, <1>3
<1>7. Jobs' = Jobs \union {Len(jobs')} /\ Len(jobs') \notin Jobs
  BY <1>1, <1>3, <1>4
<1>8. S = {jobs'[j] : j \in Jobs'}
  BY <1>5, <1>6, <1>7
<1>9. \A j \in Jobs' : IsJob(jobs'[j])
  BY <1>5, <1>6, <1>7 DEF QueueTyped
<1> QED
  BY <1>3, <1>5, <1>6, <1>7, <1>8, <1>9

\* Changing a job changes no other.
LEMMA JobChanged ==
  ASSUME QueueTyped, NEW k \in Jobs, NEW x, IsJob(x), jobs' = [jobs EXCEPT ![k] = x]
  PROVE  /\ Len(jobs') = Len(jobs) /\ Jobs' = Jobs
         /\ \A j \in Jobs : jobs'[j] = IF j = k THEN x ELSE jobs[j]
         /\ jobs' \in Seq({jobs'[j] : j \in Jobs'})
         /\ \A j \in Jobs' : IsJob(jobs'[j])
<1> DEFINE S == {jobs[j] : j \in Jobs} \union {x}
<1>1. Len(jobs) \in Nat /\ Jobs = 1 .. Len(jobs)
  BY JobsForm
<1>2. jobs \in Seq(S)
  <2>1. jobs \in Seq({jobs[j] : j \in Jobs})
    BY DEF QueueTyped
  <2> QED
    BY <2>1, SeqMonotonic
<1>3. /\ jobs' \in Seq(S) /\ Len(jobs') = Len(jobs)
      /\ \A j \in Jobs : jobs'[j] = IF j = k THEN x ELSE jobs[j]
  BY <1>1, <1>2, ExceptSeq
<1>4. Jobs' = 1 .. Len(jobs') /\ jobs' \in [1 .. Len(jobs') -> S]
  BY <1>3, LenProperties DEF Jobs
<1>5. Jobs' = Jobs
  BY <1>1, <1>3, <1>4
<1>6. jobs' \in Seq({jobs'[j] : j \in Jobs'})
  <2> DEFINE R == {jobs'[j] : j \in 1 .. Len(jobs')}
  <2>1. jobs' \in [1 .. Len(jobs') -> R]
    BY <1>4
  <2>2. Len(jobs') \in Nat
    BY <1>1, <1>3
  <2> HIDE DEF R
  <2>3. jobs' \in Seq(R)
    <3>1. \A i \in 1 .. Len(jobs') : jobs'[i] \in R
      BY <2>1
    <3>2. [i \in 1 .. Len(jobs') |-> jobs'[i]] \in Seq(R)
      BY <3>1, <2>2
    <3>3. jobs' = [i \in 1 .. Len(jobs') |-> jobs'[i]]
      BY <2>1
    <3> QED
      BY <3>2, <3>3
  <2> QED
    BY <2>3, <1>4 DEF R
<1>7. \A j \in Jobs' : IsJob(jobs'[j])
  BY <1>3, <1>5 DEF QueueTyped
<1> QED
  BY <1>3, <1>5, <1>6, <1>7

\* A command that inherits no settings has some.
LEMMA DefaultPolicy == Min(Policies) \in Policies
<1>1. PICK m \in Policies : \A n \in Policies : <<n, m>> \notin OpToRel(<, Nat)
  BY QueueAssumption, NatLessThanWellFounded, WFMin, Zenon
<1>2. ASSUME NEW n \in Policies PROVE m <= n
  <2>1. m \in Nat /\ n \in Nat
    BY QueueAssumption
  <2>2. n < m => <<n, m>> \in OpToRel(<, Nat)
    BY <2>1 DEF OpToRel
  <2>3. ~(n < m)
    BY <2>2, <1>1, Zenon
  <2> QED
    BY <2>1, <2>3
<1> QED
  BY <1>1, <1>2 DEF Min

-----------------------------------------------------------------------------
(* Steps *)

\* What a command holds outlives what may happen to the jobs.
LEMMA StaysSound ==
  ASSUME QueueTyped, JobsStay, NEW c, IsCommand(c), Prepared(c)
  PROVE  IsCommand(c)' /\ Prepared(c)'
<1>1. Jobs \subseteq Jobs'
  BY DEF JobsStay
<1>2. IsCommand(c)'
  BY <1>1 DEF IsCommand
<1>3. ASSUME c.step \in {"bind", "persist"}, c.invocation.from # None
      PROVE  c.invocation.from \in Jobs' /\ jobs'[c.invocation.from].attached
  BY <1>3 DEF Prepared, JobsStay
<1>4. ASSUME c.step \in {"attach", "run"}
      PROVE  jobs'[c.job].invocation # None
  BY <1>4 DEF Prepared, JobsStay, IsCommand
<1>5. c.step = "run" => jobs'[c.job].attached
  BY DEF Prepared, JobsStay, IsCommand
<1> QED
  BY <1>2, <1>3, <1>4, <1>5 DEF Prepared

\* A step changes one command only.
LEMMA CommandChanged ==
  ASSUME QueueTyped, CommandsInv, JobsStay, NEW p \in Terminals, NEW c,
         cmd' = [cmd EXCEPT ![p] = c], IsCommand(c)', Prepared(c)'
  PROVE  /\ cmd' = [q \in Terminals |-> cmd'[q]]
         /\ \A q \in Terminals : IsCommand(cmd[q])'
         /\ CommandsInv'
<1>1. cmd = [q \in Terminals |-> cmd[q]]
  BY DEF QueueTyped
<1>2. \A q \in Terminals : cmd'[q] = IF q = p THEN c ELSE cmd[q]
  BY <1>1
<1>3. cmd' = [q \in Terminals |-> cmd'[q]]
  BY <1>1
<1>4. ASSUME NEW q \in Terminals PROVE IsCommand(cmd[q])' /\ Prepared(cmd[q])'
  <2>1. CASE q = p
    <3>1. cmd'[q] = c
      BY <2>1, <1>2
    <3> QED
      BY <3>1 DEF IsCommand, Prepared
  <2>2. CASE q # p
    <3>1. cmd'[q] = cmd[q]
      BY <2>2, <1>2
    <3>2. IsCommand(cmd[q]) /\ Prepared(cmd[q])
      BY DEF QueueTyped, CommandsInv
    <3> DEFINE d == cmd[q]
    <3>3. IsCommand(d) /\ Prepared(d) /\ cmd'[q] = d
      BY <3>1, <3>2
    <3> HIDE DEF d
    <3>4. PICK e : e = d
      OBVIOUS
    <3>5. IsCommand(e)' /\ Prepared(e)'
      BY <3>3, <3>4, StaysSound DEF IsCommand, Prepared
    <3> QED
      BY <3>3, <3>4, <3>5 DEF IsCommand, Prepared
  <2> QED
    BY <2>1, <2>2
<1> QED
  BY <1>3, <1>4 DEF CommandsInv

\* A step that leaves the jobs alone.
LEMMA SameJobs ==
  ASSUME QueueTyped, JobsInv, jobs' = jobs
  PROVE  /\ JobsStay
         /\ jobs' \in Seq({jobs'[j] : j \in Jobs'})
         /\ \A j \in Jobs' : IsJob(jobs'[j])
BY DEF JobsStay, JobsInv, ParentOf, QueueTyped, Jobs

\* A terminal without a command holds nothing to check.
LEMMA IdleIsSound == IsCommand(Quiet) /\ Prepared(Quiet)
BY DEF IsCommand, Prepared, Quiet, QueueSteps

\* Ending a command: NothingToRerun, RunActive, Conflict, Finish, Interrupt.
LEMMA EndKeeps ==
  ASSUME QueueTyped, JobsInv, CommandsInv, NEW p \in Terminals, End(p), jobs' = jobs,
         lastRun' \in Jobs \union {None}
  PROVE  Keeps
<1>1. JobsStay /\ Jobs' = Jobs
  BY SameJobs DEF Jobs
<1>2. IsCommand(Quiet)' /\ Prepared(Quiet)'
  BY DEF IsCommand, Prepared, Quiet, QueueSteps
<1>3. /\ cmd' = [q \in Terminals |-> cmd'[q]]
      /\ \A q \in Terminals : IsCommand(cmd[q])'
      /\ CommandsInv'
  <2>1. cmd' = [cmd EXCEPT ![p] = Quiet]
    BY DEF End
  <2> DEFINE d == Quiet
  <2>2. PICK e : e = d
    OBVIOUS
  <2>3. cmd' = [cmd EXCEPT ![p] = e] /\ IsCommand(e)' /\ Prepared(e)'
    BY <2>1, <2>2, <1>2 DEF IsCommand, Prepared
  <2> QED
    BY <2>3, <1>1, CommandChanged
<1> QED
  BY <1>1, <1>3, SameJobs DEF Keeps, QueueTyped

\* A command is given; those that ran alone no longer do.
LEMMA GiveKeeps ==
  ASSUME QueueTyped, JobsInv, CommandsInv, NEW p \in Terminals, NEW a \in Commands, Give(p, a)
  PROVE  Keeps
<1>1. JobsStay /\ Jobs' = Jobs /\ jobs' = jobs /\ lastRun' = lastRun
  BY SameJobs DEF Jobs, Give
<1>2. ASSUME NEW q \in Terminals PROVE IsCommand(cmd[q])' /\ Prepared(cmd[q])'
  <2>1. CASE q = p
    <3>1. cmd'[q] = [Quiet EXCEPT !.step = "resolve", !.args = a,
                       !.alone = \A r \in Terminals : cmd[r].step = "idle"]
      BY <2>1 DEF Give
    <3> QED
      BY <3>1 DEF IsCommand, Prepared, Quiet, QueueSteps
  <2>2. CASE q # p
    <3>1. cmd'[q] = [cmd[q] EXCEPT !.alone = FALSE]
      BY <2>2 DEF Give
    <3>2. IsCommand(cmd[q]) /\ Prepared(cmd[q])
      BY DEF QueueTyped, CommandsInv
    <3> QED
      BY <3>1, <3>2, <1>1 DEF IsCommand, Prepared, Jobs
  <2> QED
    BY <2>1, <2>2
<1>3. cmd' = [q \in Terminals |-> cmd'[q]]
  BY DEF Give
<1> QED
  BY <1>1, <1>2, <1>3, SameJobs DEF Keeps, QueueTyped, CommandsInv

\* Resolving picks a source that has a result.json, or none.
LEMMA ResolveKeeps ==
  ASSUME QueueTyped, JobsInv, CommandsInv, NEW p \in Terminals, Resolve(p)
  PROVE  Keeps
<1> DEFINE a == cmd[p].args
           source == IF a.rerun THEN SourceOf(a) ELSE None
           i == [thinking |-> Inherited(a.thinking, source), from |-> source]
           T == IF a.rerun THEN Selected(a, source) ELSE a.tasks
           d == [cmd[p] EXCEPT !.step = "bind", !.tasks = T, !.invocation = i]
<1>1. JobsStay /\ Jobs' = Jobs /\ jobs' = jobs /\ lastRun' = lastRun
  BY SameJobs DEF Jobs, Resolve
<1>2. IsCommand(cmd[p]) /\ cmd[p].step = "resolve" /\ a \in Commands
  BY DEF QueueTyped, IsCommand, Resolve
<1>3. /\ a.rerun \in BOOLEAN /\ a.tasks \subseteq Tasks
      /\ a.thinking \in Policies \union {None}
  BY <1>2, QueueAssumption
<1>4. source # None => source \in Jobs /\ jobs[source].attached
  BY DEF Resolve, CanRerun
<1>5. Jobs \subseteq Nat
  BY JobsForm
<1>6. Inherited(a.thinking, source) \in Policies
  <2>1. CASE a.thinking # None
    BY <2>1, <1>3 DEF Inherited
  <2>2. CASE a.thinking = None /\ source # None /\ jobs[source].invocation # None
    <3>1. jobs[source].invocation \in Invocations
      BY <2>2, <1>4 DEF QueueTyped, IsJob
    <3> QED
      BY <2>2, <3>1 DEF Inherited, Invocations
  <2>3. CASE a.thinking = None /\ ~(source # None /\ jobs[source].invocation # None)
    BY <2>3, DefaultPolicy DEF Inherited
  <2> QED
    BY <2>1, <2>2, <2>3
<1>7. T \subseteq Tasks
  BY <1>3 DEF Selected, Queue
<1>8. cmd' = [cmd EXCEPT ![p] = d]
  BY DEF Resolve
<1>9. i \in Invocations /\ i.from = source
  BY <1>4, <1>5, <1>6 DEF Invocations
<1>10. i # None
  BY <1>9, QueueAssumption
<1> HIDE DEF a, i, T, source
<1>11. /\ d.step = "bind" /\ d.invocation = i /\ d.job = cmd[p].job
       /\ d \in [step : QueueSteps, args : Commands \union {None}, tasks : SUBSET Tasks,
                 invocation : Invocations \union {None}, job : Jobs \union {None},
                 alone : BOOLEAN]
       /\ d.args = a
  BY <1>2, <1>7, <1>9 DEF IsCommand, QueueSteps, a
<1>12. PICK e : e = d
  OBVIOUS
<1>13. IsCommand(e) /\ Prepared(e)
  BY <1>11, <1>12, <1>2, <1>4, <1>9, <1>10 DEF IsCommand, Prepared
<1>14. IsCommand(e)' /\ Prepared(e)'
  BY <1>13, <1>1, StaysSound
<1>15. cmd' = [cmd EXCEPT ![p] = e]
  BY <1>8, <1>12
<1>16. /\ cmd' = [q \in Terminals |-> cmd'[q]]
       /\ \A q \in Terminals : IsCommand(cmd[q])'
       /\ CommandsInv'
  BY <1>1, <1>14, <1>15, CommandChanged
<1> QED
  BY <1>1, <1>16, SameJobs DEF Keeps, QueueTyped

\* A nonempty set of job numbers has a largest one.
LEMMA LargestIsIn ==
  ASSUME NEW n \in Nat, NEW T, T \subseteq 1 .. n, T # {}
  PROVE  Max(T) \in T /\ \A k \in T : k <= Max(T)
<1> DEFINE D == {n - k : k \in T}
<1>1. PICK m \in D : \A k \in D : <<k, m>> \notin OpToRel(<, Nat)
  <2>1. \A k \in T : k \in 1 .. n /\ n - k \in Nat
    OBVIOUS
  <2>2. D \subseteq Nat /\ D # {}
    BY <2>1
  <2> QED
    BY <2>2, NatLessThanWellFounded, WFMin, Zenon
<1>2. n - m \in T /\ m \in Nat
  <2>1. PICK k \in T : m = n - k
    BY <1>1
  <2>2. k \in 1 .. n
    OBVIOUS
  <2> QED
    BY <2>1, <2>2
<1>3. ASSUME NEW k \in T PROVE k <= n - m
  <2>1. k \in Nat /\ n - k \in Nat /\ n - k \in D
    OBVIOUS
  <2>2. n - k < m => <<n - k, m>> \in OpToRel(<, Nat)
    BY <1>2, <2>1 DEF OpToRel
  <2>3. ~(n - k < m)
    BY <2>1, <2>2, <1>1, Zenon
  <2> QED
    BY <2>1, <2>3, <1>2
<1> QED
  BY <1>2, <1>3 DEF Max

\* The command's new job has no invocation.json and no result.json.
LEMMA CreateKeeps ==
  ASSUME QueueTyped, JobsInv, CommandsInv, NEW p \in Terminals, Create(p)
  PROVE  Keeps
<1>1. IsCommand(cmd[p]) /\ cmd[p].args \in Commands /\ cmd[p].tasks \subseteq Tasks
  BY DEF QueueTyped, IsCommand, Create
<1>2. cmd[p].args.trials \in Nat
  BY <1>1, QueueAssumption
<1>3. IsJob(NewJob(p))
  <2>1. [n |-> 0, seen |-> {}] \in Results
    BY DEF Results
  <2>2. NewJob(p).done \in [NewJob(p).tasks -> Results]
    BY <2>1 DEF NewJob
  <2>3. \A t \in NewJob(p).tasks : NewJob(p).done[t].n = 0
    BY DEF NewJob
  <2> QED
    BY <1>1, <1>2, <2>2, <2>3 DEF IsJob, NewJob
<1>4. jobs' = Append(jobs, NewJob(p))
  BY DEF Create
<1>5. /\ Len(jobs') = Len(jobs) + 1 /\ Jobs' = Jobs \union {Len(jobs')}
      /\ \A j \in Jobs : jobs'[j] = jobs[j]
      /\ Len(jobs') \notin Jobs /\ jobs'[Len(jobs')] = NewJob(p)
      /\ jobs' \in Seq({jobs'[j] : j \in Jobs'})
      /\ \A j \in Jobs' : IsJob(jobs'[j])
  BY <1>3, <1>4, JobAppended
<1>6. JobsStay
  <2>1. \A j \in Jobs : ParentOf(j)' = ParentOf(j)
    BY <1>5 DEF ParentOf
  <2> QED
    BY <1>5, <2>1 DEF JobsStay, JobsInv, NewJob
<1>7. PICK e : e = [cmd[p] EXCEPT !.step = "persist", !.job = Len(jobs')]
  OBVIOUS
<1>8. cmd' = [cmd EXCEPT ![p] = e]
  BY <1>7 DEF Create
<1>9. /\ e \in [step : QueueSteps, args : Commands \union {None}, tasks : SUBSET Tasks,
                invocation : Invocations \union {None}, job : Jobs' \union {None},
                alone : BOOLEAN]
      /\ e.step = "persist" /\ e.job = Len(jobs') /\ e.args = cmd[p].args
      /\ e.invocation = cmd[p].invocation
  BY <1>1, <1>5, <1>7 DEF IsCommand, QueueSteps
<1>10. IsCommand(e)'
  BY <1>1, <1>5, <1>9 DEF IsCommand
<1>11. Prepared(e)'
  <2>1. Prepared(cmd[p]) /\ cmd[p].step = "bind"
    BY DEF CommandsInv, Create
  <2> QED
    BY <2>1, <1>9, <1>6 DEF Prepared, JobsStay
<1>12. /\ cmd' = [q \in Terminals |-> cmd'[q]]
       /\ \A q \in Terminals : IsCommand(cmd[q])'
       /\ CommandsInv'
  BY <1>6, <1>8, <1>10, <1>11, CommandChanged
<1> QED
  BY <1>5, <1>6, <1>12 DEF Keeps, QueueTyped, Create

\* The command takes up a job that exists.
LEMMA ResumeKeeps ==
  ASSUME QueueTyped, JobsInv, CommandsInv, NEW p \in Terminals, Resume(p)
  PROVE  Keeps
<1>1. JobsStay /\ Jobs' = Jobs /\ jobs' = jobs /\ lastRun' = lastRun
  BY SameJobs DEF Jobs, Resume
<1> DEFINE k == Max(Matching(p))
           d == [cmd[p] EXCEPT !.step = "persist", !.job = k]
<1>2. k \in Jobs
  <2>1. Matching(p) \subseteq 1 .. Len(jobs) /\ Matching(p) # {} /\ Len(jobs) \in Nat
    BY JobsForm DEF Matching, Resume
  <2> QED
    BY <2>1, LargestIsIn, JobsForm
<1>3. cmd' = [cmd EXCEPT ![p] = d]
  BY DEF Resume
<1>4. IsCommand(cmd[p]) /\ Prepared(cmd[p]) /\ cmd[p].step = "bind"
  BY DEF QueueTyped, CommandsInv, Resume
<1> HIDE DEF k
<1>5. IsCommand(d) /\ Prepared(d)
  BY <1>2, <1>4 DEF IsCommand, Prepared, QueueSteps
<1> HIDE DEF d
<1>6. PICK e : e = d
  OBVIOUS
<1>7. IsCommand(e)' /\ Prepared(e)' /\ cmd' = [cmd EXCEPT ![p] = e]
  BY <1>1, <1>3, <1>5, <1>6, StaysSound
<1>8. /\ cmd' = [q \in Terminals |-> cmd'[q]]
      /\ \A q \in Terminals : IsCommand(cmd[q])'
      /\ CommandsInv'
  BY <1>1, <1>7, CommandChanged
<1> QED
  BY <1>1, <1>8, SameJobs DEF Keeps, QueueTyped

\* A step of p on its own job.
LEMMA GotoKeeps ==
  ASSUME QueueTyped, JobsInv, CommandsInv, NEW p \in Terminals, NEW s \in {"attach", "run"},
         Goto(p, s), cmd[p].step \in {"persist", "attach"},
         NEW x, IsJob(x), jobs' = [jobs EXCEPT ![cmd[p].job] = x], lastRun' = lastRun,
         JobsStay, x.invocation # None, s = "run" => x.attached
  PROVE  Keeps
<1> DEFINE k == cmd[p].job
<1>1. IsCommand(cmd[p]) /\ Prepared(cmd[p]) /\ k \in Jobs
  BY DEF QueueTyped, CommandsInv, IsCommand
<1>2. /\ Jobs' = Jobs /\ jobs' \in Seq({jobs'[j] : j \in Jobs'})
      /\ \A j \in Jobs' : IsJob(jobs'[j])
      /\ jobs'[k] = x
  <2> HIDE DEF k
  <2>1. jobs' = [jobs EXCEPT ![k] = x]
    BY DEF k
  <2> QED
    BY <1>1, <2>1, JobChanged
<1>3. PICK e : e = [cmd[p] EXCEPT !.step = s]
  OBVIOUS
<1>4. /\ cmd' = [cmd EXCEPT ![p] = e] /\ e.step = s /\ e.job = k
      /\ IsCommand(e)'
  BY <1>1, <1>2, <1>3 DEF IsCommand, QueueSteps, Goto
<1>5. Prepared(e)'
  BY <1>2, <1>4 DEF Prepared
<1>8. /\ cmd' = [q \in Terminals |-> cmd'[q]]
      /\ \A q \in Terminals : IsCommand(cmd[q])'
      /\ CommandsInv'
  BY <1>4, <1>5, CommandChanged
<1> QED
  BY <1>2, <1>8 DEF Keeps, QueueTyped

\* The job is given its invocation.json, if it has none yet.
LEMMA PersistKeeps ==
  ASSUME QueueTyped, JobsInv, CommandsInv, NEW p \in Terminals, Persist(p)
  PROVE  Keeps
<1> DEFINE k == cmd[p].job
           i == cmd[p].invocation
           x == [jobs[k] EXCEPT !.invocation = i]
<1>1. /\ IsCommand(cmd[p]) /\ Prepared(cmd[p]) /\ k \in Jobs /\ i \in Invocations
      /\ i.from # None => i.from \in Jobs /\ jobs[i.from].attached
      /\ i # None
  BY QueueAssumption DEF QueueTyped, CommandsInv, IsCommand, Prepared, Persist
<1>2. IsJob(jobs[k])
  BY <1>1 DEF QueueTyped
<1>3. /\ x.invocation = i /\ x.attached = jobs[k].attached /\ x.tasks = jobs[k].tasks
      /\ IsJob(x)
  BY <1>1, <1>2 DEF IsJob
<1>4. jobs[k].invocation \in {None, i}
  BY DEF Persist, SameWorkload
<1>5. jobs' = [jobs EXCEPT ![k] = x] /\ Goto(p, "attach") /\ lastRun' = lastRun
  BY DEF Persist
<1> HIDE DEF x
<1>6. /\ Jobs' = Jobs
      /\ \A j \in Jobs : jobs'[j] = IF j = k THEN x ELSE jobs[j]
  <2>1. k \in Jobs /\ IsJob(x) /\ jobs' = [jobs EXCEPT ![k] = x]
    BY <1>1, <1>3, <1>5
  <2> HIDE DEF k
  <2> QED
    BY <2>1, JobChanged
<1>7. JobsStay
  BY <1>1, <1>3, <1>4, <1>6 DEF JobsStay, JobsInv, ParentOf
<1> QED
  BY <1>1, <1>3, <1>5, <1>7, GotoKeeps DEF Persist

\* The job is given its result.json.
LEMMA AttachKeeps ==
  ASSUME QueueTyped, JobsInv, CommandsInv, NEW p \in Terminals, Attach(p)
  PROVE  Keeps
<1> DEFINE k == cmd[p].job
           x == [jobs[k] EXCEPT !.attached = TRUE]
<1>1. /\ IsCommand(cmd[p]) /\ Prepared(cmd[p]) /\ k \in Jobs
      /\ jobs[k].invocation # None
  BY DEF QueueTyped, CommandsInv, IsCommand, Prepared, Attach
<1>2. IsJob(jobs[k])
  BY <1>1 DEF QueueTyped
<1>3. /\ x.invocation = jobs[k].invocation /\ x.attached /\ x.tasks = jobs[k].tasks
      /\ IsJob(x)
  <2>1. /\ x.tasks = jobs[k].tasks /\ x.trials = jobs[k].trials
        /\ x.invocation = jobs[k].invocation /\ x.attached = TRUE
        /\ x.done = jobs[k].done
        /\ x = [tasks |-> x.tasks, trials |-> x.trials, invocation |-> x.invocation,
                attached |-> x.attached, done |-> x.done]
    <3> DEFINE y == jobs[k]
    <3>1. y = [tasks |-> y.tasks, trials |-> y.trials, invocation |-> y.invocation,
               attached |-> y.attached, done |-> y.done]
      BY <1>2 DEF IsJob
    <3>2. x = [y EXCEPT !.attached = TRUE]
      OBVIOUS
    <3> HIDE DEF x, y
    <3>3. x = [tasks |-> y.tasks, trials |-> y.trials, invocation |-> y.invocation,
               attached |-> TRUE, done |-> y.done]
      BY <3>1, <3>2
    <3> QED
      BY <3>3 DEF y
  <2> HIDE DEF x
  <2> QED
    BY <1>2, <2>1 DEF IsJob
<1>4. jobs' = [jobs EXCEPT ![k] = x] /\ Goto(p, "run") /\ lastRun' = lastRun
  BY DEF Attach
<1> HIDE DEF x
<1>5. /\ Jobs' = Jobs
      /\ \A j \in Jobs : jobs'[j] = IF j = k THEN x ELSE jobs[j]
  BY <1>1, <1>3, <1>4, JobChanged
<1>6. JobsStay
  BY <1>1, <1>3, <1>5 DEF JobsStay, JobsInv, ParentOf
<1> QED
  BY <1>1, <1>3, <1>4, <1>6, GotoKeeps DEF Attach

\* A trial adds one result of one task of the command's job.
LEMMA TrialFacts ==
  ASSUME QueueTyped, NEW p \in Terminals, NEW t \in Tasks, NEW s \in Outcomes,
         RunTrial(p, t, s)
  PROVE  /\ cmd[p].job \in Jobs /\ t \in jobs[cmd[p].job].tasks /\ Jobs' = Jobs
         /\ jobs' \in Seq({jobs'[j] : j \in Jobs'})
         /\ \A j \in Jobs' : IsJob(jobs'[j])
         /\ \A j \in Jobs :
              /\ jobs'[j].invocation = jobs[j].invocation
              /\ jobs'[j].attached = jobs[j].attached
              /\ jobs'[j].tasks = jobs[j].tasks
              /\ \A u \in jobs[j].tasks :
                   ~(j = cmd[p].job /\ u = t) => jobs'[j].done[u] = jobs[j].done[u]
         /\ jobs'[cmd[p].job].done[t].n = jobs[cmd[p].job].done[t].n + 1
         /\ jobs[cmd[p].job].done[t].n \in Nat
<1> DEFINE k == cmd[p].job
           r == [n |-> jobs[k].done[t].n + 1, seen |-> jobs[k].done[t].seen \union {s}]
           x == [jobs[k] EXCEPT !.done = [jobs[k].done EXCEPT ![t] = r]]
<1>1. k \in Jobs
  BY DEF QueueTyped, IsCommand, RunTrial
<1>2. /\ IsJob(jobs[k]) /\ t \in jobs[k].tasks
      /\ jobs[k].done[t].n < jobs[k].trials
      /\ jobs' = [jobs EXCEPT ![k] = x]
  BY <1>1 DEF QueueTyped, RunTrial
<1>3. r \in Results /\ r.n = jobs[k].done[t].n + 1 /\ jobs[k].done[t].n \in Nat
  BY <1>2, QueueAssumption DEF IsJob, Results
<1> HIDE DEF r
<1>4. /\ x.invocation = jobs[k].invocation /\ x.attached = jobs[k].attached
      /\ x.tasks = jobs[k].tasks /\ x.trials = jobs[k].trials
      /\ x.done = [jobs[k].done EXCEPT ![t] = r]
      /\ x = [tasks |-> x.tasks, trials |-> x.trials, invocation |-> x.invocation,
              attached |-> x.attached, done |-> x.done]
  <2> DEFINE y == jobs[k]
             f == [jobs[k].done EXCEPT ![t] = r]
  <2>1. y = [tasks |-> y.tasks, trials |-> y.trials, invocation |-> y.invocation,
             attached |-> y.attached, done |-> y.done]
    BY <1>2 DEF IsJob
  <2>2. x = [y EXCEPT !.done = f]
    OBVIOUS
  <2> HIDE DEF y, f
  <2>3. x = [tasks |-> y.tasks, trials |-> y.trials, invocation |-> y.invocation,
             attached |-> y.attached, done |-> f]
    BY <2>1, <2>2
  <2> HIDE DEF x
  <2> QED
    BY <2>3 DEF y, f
<1> HIDE DEF x
<1>5. /\ x.done \in [x.tasks -> Results] /\ x.done[t] = r
      /\ \A u \in x.tasks : u # t => x.done[u] = jobs[k].done[u]
  BY <1>2, <1>3, <1>4 DEF IsJob
<1>6. \A u \in x.tasks : x.done[u].n <= x.trials
  <2> TAKE u \in x.tasks
  <2>1. jobs[k].done[u].n <= jobs[k].trials /\ jobs[k].trials \in Nat
    BY <1>2, <1>4 DEF IsJob
  <2>2. CASE u = t
    BY <2>1, <2>2, <1>2, <1>3, <1>4, <1>5
  <2>3. CASE u # t
    BY <2>1, <2>3, <1>4, <1>5
  <2> QED
    BY <2>2, <2>3
<1>7. IsJob(x)
  BY <1>2, <1>4, <1>5, <1>6 DEF IsJob
<1>8. /\ Jobs' = Jobs /\ jobs' \in Seq({jobs'[j] : j \in Jobs'})
      /\ \A j \in Jobs' : IsJob(jobs'[j])
      /\ \A j \in Jobs : jobs'[j] = IF j = k THEN x ELSE jobs[j]
  BY <1>1, <1>2, <1>7, JobChanged
<1> QED
  BY <1>1, <1>2, <1>3, <1>4, <1>5, <1>8

\* A trial stays within the number of trials of its job.
LEMMA RunTrialKeeps ==
  ASSUME QueueTyped, JobsInv, CommandsInv, NEW p \in Terminals, NEW t \in Tasks,
         NEW s \in Outcomes, RunTrial(p, t, s)
  PROVE  Keeps
<1>1. /\ Jobs' = Jobs /\ jobs' \in Seq({jobs'[j] : j \in Jobs'})
      /\ \A j \in Jobs' : IsJob(jobs'[j])
      /\ \A j \in Jobs : /\ jobs'[j].invocation = jobs[j].invocation
                         /\ jobs'[j].attached = jobs[j].attached
                         /\ jobs'[j].tasks = jobs[j].tasks
  BY TrialFacts
<1>2. JobsStay
  BY <1>1 DEF JobsStay, JobsInv
<1>3. cmd' = cmd /\ lastRun' = lastRun
  BY DEF RunTrial
<1>4. ASSUME NEW q \in Terminals PROVE IsCommand(cmd[q])' /\ Prepared(cmd[q])'
  <2>1. IsCommand(cmd[q]) /\ Prepared(cmd[q])
    BY DEF QueueTyped, CommandsInv
  <2>2. PICK e : e = cmd[q]
    OBVIOUS
  <2>3. IsCommand(e)' /\ Prepared(e)'
    BY <2>1, <2>2, <1>2, StaysSound
  <2> QED
    BY <2>2, <2>3, <1>3 DEF IsCommand, Prepared
<1> QED
  BY <1>1, <1>2, <1>3, <1>4 DEF Keeps, QueueTyped, CommandsInv

\* One step: one case per action.
LEMMA StepsKeep ==
  ASSUME QueueTyped, JobsInv, CommandsInv, [QueueNext]_queueVars
  PROVE  Keeps
<1>1. CASE UNCHANGED queueVars
  <2>1. JobsStay /\ jobs' = jobs /\ lastRun' = lastRun /\ cmd' = cmd
    BY <1>1, SameJobs DEF queueVars
  <2> QED
    BY <2>1, <1>1 DEF Keeps, QueueTyped, CommandsInv, Prepared, IsCommand, Jobs, queueVars
<1>2. ASSUME NEW p \in Terminals, Act(p) PROVE Keeps
  <2>1. ASSUME NEW a \in Commands, Give(p, a) PROVE Keeps
    BY <2>1, GiveKeeps
  <2>2. CASE Resolve(p)
    BY <2>2, ResolveKeeps
  <2>3. CASE NothingToRerun(p)
    BY <2>3, EndKeeps DEF NothingToRerun, QueueTyped
  <2>4. CASE Create(p)
    BY <2>4, CreateKeeps
  <2>5. CASE Resume(p)
    BY <2>5, ResumeKeeps
  <2>6. CASE RunActive(p)
    BY <2>6, EndKeeps DEF RunActive, QueueTyped
  <2>7. CASE Persist(p)
    BY <2>7, PersistKeeps
  <2>8. CASE Conflict(p)
    BY <2>8, EndKeeps DEF Conflict, QueueTyped
  <2>9. CASE Attach(p)
    BY <2>9, AttachKeeps
  <2>10. ASSUME NEW t \in Tasks, NEW s \in Outcomes, RunTrial(p, t, s) PROVE Keeps
    BY <2>10, RunTrialKeeps
  <2>11. CASE Finish(p)
    <3>1. cmd[p].job \in Jobs
      BY <2>11 DEF Finish, QueueTyped, IsCommand
    <3> QED
      BY <2>11, <3>1, EndKeeps DEF Finish
  <2>12. CASE Interrupt(p)
    BY <2>12, EndKeeps DEF Interrupt, QueueTyped
  <2> QED
    BY <1>2, <2>1, <2>2, <2>3, <2>4, <2>5, <2>6, <2>7, <2>8, <2>9, <2>10, <2>11, <2>12
       DEF Act
<1> QED
  BY <1>1, <1>2 DEF QueueNext

\* What may happen to the jobs keeps what holds of them.
LEMMA JobsStayInv ==
  ASSUME JobsInv, JobsStay
  PROVE  JobsInv'
<1> SUFFICES ASSUME NEW j \in Jobs'
             PROVE  /\ jobs'[j].attached => jobs'[j].invocation # None
                    /\ ParentOf(j)' # None =>
                         ParentOf(j)' \in Jobs' /\ jobs'[ParentOf(j)'].attached
  BY DEF JobsInv
<1>1. CASE j \notin Jobs
  BY <1>1 DEF JobsStay, ParentOf
<1>2. CASE j \in Jobs
  <2>1. jobs'[j].invocation = jobs[j].invocation => ParentOf(j)' = ParentOf(j)
    BY DEF ParentOf
  <2>2. ParentOf(j)' # None => ParentOf(j)' \in Jobs /\ jobs[ParentOf(j)'].attached
    BY <1>2, <2>1 DEF JobsStay, JobsInv
  <2> QED
    BY <1>2, <2>2 DEF JobsStay
<1> QED
  BY <1>1, <1>2

\* The job that is given its source has no reruns of its own yet, so it can be
\* numbered after that source whatever its number was.
LEMMA JobsStayRanked ==
  ASSUME JobsInv, JobsStay, Ranked
  PROVE  Ranked'
<1>1. PICK rank : Ranks(rank)
  BY DEF Ranked
<1> DEFINE Same(j) == j \in Jobs /\ ParentOf(j)' = ParentOf(j)
           new == [j \in Jobs' |-> IF Same(j) THEN rank[j]
                                  ELSE IF ParentOf(j)' = None THEN 0
                                  ELSE rank[ParentOf(j)'] + 1]
<1>2. ASSUME NEW j \in Jobs'
      PROVE  /\ new[j] \in Nat
             /\ ParentOf(j)' # None => new[ParentOf(j)'] < new[j]
  <2>1. CASE ParentOf(j)' = None
    BY <2>1, <1>1 DEF Ranks
  <2>2. CASE ParentOf(j)' # None
    <3>0. PICK s : s = ParentOf(j)'
      OBVIOUS
    <3>1. j \in Jobs
      BY <2>2, <1>2 DEF JobsStay, ParentOf
    <3>2. jobs'[j].invocation = jobs[j].invocation => s = ParentOf(j)
      BY <3>0 DEF ParentOf
    <3>3. s \in Jobs /\ jobs[s].attached
      BY <2>2, <3>0, <3>1, <3>2 DEF JobsStay, JobsInv
    <3>4. jobs[s].invocation # None /\ jobs'[s].invocation = jobs[s].invocation
      BY <3>3 DEF JobsStay, JobsInv
    <3>5. ParentOf(s)' = ParentOf(s)
      BY <3>4 DEF ParentOf
    <3> QED
      BY <1>1, <2>2, <3>0, <3>1, <3>3, <3>5 DEF Ranks, JobsStay
  <2> QED
    BY <2>1, <2>2
<1> QED
  BY <1>2 DEF Ranked, Ranks

-----------------------------------------------------------------------------
(* What is proved of the queue *)

\* The history that earlier commands have left satisfies the invariant.
LEMMA QueueInvInit == QueueInit => QueueInv
<1> SUFFICES ASSUME QueueInit PROVE QueueInv
  OBVIOUS
<1> USE DEF QueueInit
<1>1. SoundHistory(jobs, lastRun)
  BY QueueAssumption
<1>2. QueueTyped
  <2>1. ASSUME NEW p \in Terminals PROVE cmd[p] = Quiet
    OBVIOUS
  <2>2. ASSUME NEW p \in Terminals PROVE IsCommand(cmd[p])
    BY <2>1, IdleIsSound
  <2> QED
    BY <1>1, <2>2 DEF QueueTyped, SoundHistory, Jobs
<1>3. JobsInv
  <2> SUFFICES ASSUME NEW j \in Jobs
               PROVE  /\ jobs[j].attached => jobs[j].invocation # None
                      /\ ParentOf(j) # None =>
                           ParentOf(j) \in Jobs /\ jobs[ParentOf(j)].attached
    BY DEF JobsInv
  <2>1. jobs[j].invocation \in {None} \union
          [thinking : Policies, from : {None} \union {k \in Jobs : jobs[k].attached}]
    BY <1>1 DEF SoundHistory, Jobs
  <2>2. jobs[j].attached => jobs[j].invocation # None
    BY <1>1 DEF SoundHistory, Jobs
  <2> QED
    BY <2>1, <2>2 DEF ParentOf
<1>4. CommandsInv
  BY DEF CommandsInv, Prepared, Quiet
<1>5. Ranked
  <2>1. PICK rank \in [Jobs -> Jobs] :
          \A j \in Jobs : jobs[j].invocation # None /\ jobs[j].invocation.from # None =>
            rank[jobs[j].invocation.from] < rank[j]
    BY <1>1 DEF SoundHistory, Jobs
  <2>2. Jobs \subseteq Nat
    BY <1>2, JobsForm
  <2>3. rank \in [Jobs -> Nat]
    BY <2>2
  <2>4. \A j \in Jobs : ParentOf(j) # None => rank[ParentOf(j)] < rank[j]
    BY <2>1 DEF ParentOf
  <2> QED
    BY <2>3, <2>4 DEF Ranked, Ranks
<1> QED
  BY <1>2, <1>3, <1>4, <1>5 DEF QueueInv

\* Every step keeps it.
LEMMA QueueInvNext == QueueInv /\ [QueueNext]_queueVars => QueueInv'
BY StepsKeep, JobsStayInv, JobsStayRanked DEF QueueInv, Keeps

\* It holds in every behaviour.
LEMMA QueueInvHolds == QueueSpec => []QueueInv
BY QueueInvInit, QueueInvNext, PTL DEF QueueSpec

\* Every variable keeps its type, and no task has more trials than its job.
THEOREM QueueTyping == QueueSpec => []QueueTypeOK
<1>1. QueueInv => QueueTypeOK
  <2> SUFFICES ASSUME QueueInv PROVE QueueTypeOK
    OBVIOUS
  <2>1. QueueTyped /\ JobsInv
    BY DEF QueueInv
  <2>2. ASSUME NEW j \in Jobs
        PROVE  /\ jobs[j].tasks \subseteq Tasks /\ jobs[j].attached \in BOOLEAN
               /\ jobs[j].invocation \in [thinking : Policies, from : Jobs \union {None}]
                                          \union {None}
               /\ \A t \in jobs[j].tasks : jobs[j].done[t].n \in 0 .. jobs[j].trials
    <3>1. IsJob(jobs[j])
      BY <2>1 DEF QueueTyped
    <3>2. jobs[j].invocation # None =>
            jobs[j].invocation \in Invocations /\
            jobs[j].invocation.from \in Jobs \union {None}
      BY <2>1, <3>1 DEF IsJob, JobsInv, ParentOf
    <3>3. jobs[j].invocation \in [thinking : Policies, from : Jobs \union {None}]
                                 \union {None}
      BY <3>2 DEF Invocations
    <3>4. \A t \in jobs[j].tasks : jobs[j].done[t].n \in 0 .. jobs[j].trials
      BY <3>1 DEF IsJob, Results
    <3> QED
      BY <3>1, <3>3, <3>4 DEF IsJob
  <2>3. lastRun \in Jobs \union {None}
    BY <2>1 DEF QueueTyped
  <2>4. \A p \in Terminals : cmd[p].job \in Jobs \union {None}
    BY <2>1 DEF QueueTyped, IsCommand
  <2> QED
    BY <2>2, <2>3, <2>4 DEF QueueTypeOK
<1> QED
  BY <1>1, QueueInvHolds, PTL

\* retained_retry_lineage comes to a job that reran nothing, whatever is rerun,
\* resumed and interrupted, and whatever jobs of it are still incomplete.
THEOREM LineagesAreFinite == QueueSpec => []LineagesEnd
<1>1. QueueInv => LineagesEnd
  BY JobsForm, RanksEndLineages DEF QueueInv
<1> QED
  BY <1>1, QueueInvHolds, PTL

-----------------------------------------------------------------------------
(* What a lineage says of a task *)

\* A nonempty set of naturals has a least element.
LEMMA LeastIsIn ==
  ASSUME NEW T, T \subseteq Nat, T # {}
  PROVE  Min(T) \in T
<1>1. PICK m \in T : \A n \in T : <<n, m>> \notin OpToRel(<, Nat)
  BY NatLessThanWellFounded, WFMin, Zenon
<1>2. ASSUME NEW n \in T PROVE m <= n
  <2>1. n < m => <<n, m>> \in OpToRel(<, Nat)
    BY DEF OpToRel
  <2>2. ~(n < m)
    BY <1>1, <2>1, Zenon
  <2> QED
    BY <2>2
<1> QED
  BY <1>2 DEF Min

\* The facts of ClimbFacts, of a function that need not mention the state.
Climbs(up, j) ==
  /\ up = [n \in 0 .. Len(jobs) |-> up[n]]
  /\ up[0] = j
  /\ \A n \in 1 .. Len(jobs) :
       up[n] = IF up[n - 1] = None THEN None ELSE ParentOf(up[n - 1])
  /\ up[Len(jobs)] = None

\* Every job has such a lineage, and it ends.
LineagesAreClimbs == \A j \in Jobs : Climbs(Lineage(j), j)

\* The invariant gives every job such a lineage.
LEMMA LineagesClimb == QueueInv => LineagesAreClimbs
<1> SUFFICES ASSUME QueueInv, NEW j \in Jobs PROVE Climbs(Lineage(j), j)
  BY DEF LineagesAreClimbs
<1>1. Len(jobs) \in Nat /\ Jobs = 1 .. Len(jobs) /\ JobsInv /\ Ranked
  BY JobsForm DEF QueueInv
<1>2. Lineage(j)[Len(jobs)] = None
  BY <1>1, RanksEndLineages DEF LineagesEnd, IsCycle
<1> QED
  BY <1>1, <1>2, ClimbFacts DEF Climbs

\* The lineage of a job with a result.json is settled.
LEMMA LineageStays ==
  ASSUME QueueInv, QueueInv', JobsStay, NEW j \in Jobs, jobs[j].attached,
         NEW a, Climbs(a, j), NEW b, Climbs(b, j)'
  PROVE  /\ DOMAIN a = 0 .. Len(jobs) /\ DOMAIN b = 0 .. Len(jobs') /\ Len(jobs) <= Len(jobs')
         /\ Len(jobs) \in Nat /\ Len(jobs') \in Nat
         /\ \A n \in 0 .. Len(jobs) :
              b[n] = a[n] /\ (a[n] # None => a[n] \in Jobs /\ jobs[a[n]].attached)
         /\ \A n \in Len(jobs) .. Len(jobs') : b[n] = None
<1> DEFINE L == Len(jobs)
           M == Len(jobs')
           Good(n) == b[n] = a[n] /\ (a[n] # None => a[n] \in Jobs /\ jobs[a[n]].attached)
<1>1. L \in Nat /\ Jobs = 1 .. L /\ JobsInv
  BY JobsForm DEF QueueInv
<1>2. M \in Nat /\ Jobs' = 1 .. M
  <2>1. QueueTyped => Len(jobs) \in Nat /\ Jobs = 1 .. Len(jobs)
    BY JobsForm
  <2>2. (QueueTyped => Len(jobs) \in Nat /\ Jobs = 1 .. Len(jobs))'
    BY LenProperties DEF QueueTyped, Jobs
  <2> QED
    BY <2>2 DEF QueueInv
<1>3. L <= M
  BY <1>1, <1>2 DEF JobsStay
<1>4. /\ a[0] = j /\ b[0] = j /\ a[L] = None
      /\ DOMAIN a = 0 .. L /\ DOMAIN b = 0 .. M
  BY DEF Climbs
<1>5. \A n \in 1 .. L : a[n] = IF a[n - 1] = None THEN None ELSE ParentOf(a[n - 1])
  BY DEF Climbs
<1>6. \A n \in 1 .. M :
        b[n] = IF b[n - 1] = None THEN None
               ELSE IF jobs'[b[n - 1]].invocation = None THEN None
               ELSE jobs'[b[n - 1]].invocation.from
  BY DEF Climbs, ParentOf
<1> HIDE DEF L, M
<1>7. ASSUME NEW n \in 0 .. L, ~Good(n) PROVE FALSE
  <2> DEFINE T == {k \in 0 .. L : ~Good(k)}
  <2>1. PICK m \in T : \A k \in T : <<k, m>> \notin OpToRel(<, Nat)
    <3>1. T \subseteq Nat /\ n \in T
      BY <1>7
    <3> QED
      BY <3>1, NatLessThanWellFounded, WFMin, Zenon
  <2>2. m \in 0 .. L /\ ~Good(m)
    BY <2>1
  <2>3. m # 0
    BY <2>2, <1>4
  <2> HIDE DEF Good
  <2>4. m \in 1 .. L /\ m \in 1 .. M /\ m - 1 \in 0 .. L /\ m - 1 < m
    BY <2>2, <2>3, <1>1, <1>2, <1>3
  <2>5. Good(m - 1)
    <3>1. m - 1 \in T => <<m - 1, m>> \in OpToRel(<, Nat)
      BY <2>4 DEF OpToRel
    <3> QED
      BY <3>1, <2>1, <2>4
  <2> QED
    <3>1. CASE a[m - 1] = None
      BY <3>1, <2>2, <2>4, <2>5, <1>5, <1>6 DEF Good
    <3>2. CASE a[m - 1] # None
      <4> DEFINE x == a[m - 1]
      <4>1. x \in Jobs /\ jobs[x].attached /\ b[m - 1] = x
        BY <3>2, <2>5 DEF Good
      <4>2. jobs[x].invocation # None /\ jobs'[x].invocation = jobs[x].invocation
        BY <4>1, <1>1 DEF JobsInv, JobsStay
      <4>3. a[m] = jobs[x].invocation.from /\ a[m] = ParentOf(x) /\ b[m] = a[m]
        BY <3>2, <4>1, <4>2, <2>4, <1>5, <1>6 DEF ParentOf
      <4>4. a[m] # None => a[m] \in Jobs /\ jobs[a[m]].attached
        BY <4>1, <4>3, <1>1 DEF JobsInv
      <4> QED
        BY <4>3, <4>4, <2>2 DEF Good
    <3> QED
      BY <3>1, <3>2
<1>8. ASSUME NEW n \in L .. M, b[n] # None PROVE FALSE
  <2> DEFINE T == {k \in L .. M : b[k] # None}
  <2>1. PICK m \in T : \A k \in T : <<k, m>> \notin OpToRel(<, Nat)
    <3>1. T \subseteq Nat /\ n \in T
      BY <1>8, <1>1, <1>2
    <3> QED
      BY <3>1, NatLessThanWellFounded, WFMin, Zenon
  <2>2. m \in L .. M /\ b[m] # None
    BY <2>1
  <2>3. m # L
    <3>1. L \in 0 .. L
      BY <1>1
    <3> QED
      BY <3>1, <2>2, <1>4, <1>7
  <2>4. m \in 1 .. M /\ m - 1 \in L .. M /\ m - 1 < m /\ m \in Nat /\ m - 1 \in Nat
    BY <2>2, <2>3, <1>1, <1>2
  <2>5. b[m - 1] = None
    <3>1. m - 1 \in T => <<m - 1, m>> \in OpToRel(<, Nat)
      BY <2>4 DEF OpToRel
    <3> QED
      BY <3>1, <2>1, <2>4
  <2> QED
    BY <2>2, <2>4, <2>5, <1>6
<1> QED
  BY <1>1, <1>2, <1>3, <1>4, <1>7, <1>8 DEF L, M

\* No step changes what a lineage says of a task unless it records a result of
\* that task in it.
LEMMA StatusStays ==
  ASSUME QueueInv, QueueInv', [QueueNext]_queueVars, NEW j \in Jobs, NEW t \in Tasks,
         jobs[j].attached,
         ~\E k \in {Lineage(j)[n] : n \in DOMAIN Lineage(j)} \ {None} :
            t \in jobs[k].tasks /\ jobs[k].done[t] # jobs'[k].done[t]
  PROVE  Status(j, t)' = Status(j, t)
<1>1. JobsStay
  BY StepsKeep DEF QueueInv, Keeps
<1>2. PICK a : a = Lineage(j)
  OBVIOUS
<1>3. PICK b : b = Lineage(j)'
  OBVIOUS
<1>4. Climbs(a, j)
  BY <1>2, LineagesClimb DEF LineagesAreClimbs
<1>5. Climbs(b, j)'
  <2>1. QueueInv' => LineagesAreClimbs'
    BY LineagesClimb, PTL
  <2>2. j \in Jobs'
    BY <1>1 DEF JobsStay
  <2>3. Climbs(Lineage(j), j)'
    BY <2>1, <2>2 DEF LineagesAreClimbs
  <2> QED
    BY <2>3, <1>3 DEF Climbs
<1>6. /\ DOMAIN a = 0 .. Len(jobs) /\ DOMAIN b = 0 .. Len(jobs') /\ Len(jobs) <= Len(jobs')
      /\ Len(jobs) \in Nat /\ Len(jobs') \in Nat
      /\ \A n \in 0 .. Len(jobs) :
           b[n] = a[n] /\ (a[n] # None => a[n] \in Jobs /\ jobs[a[n]].attached)
      /\ \A n \in Len(jobs) .. Len(jobs') : b[n] = None
  BY <1>1, <1>4, <1>5, LineageStays
<1> DEFINE A == {n \in DOMAIN a : a[n] # None /\ t \in jobs[a[n]].tasks
                                              /\ jobs[a[n]].done[t].n > 0}
           B == {n \in DOMAIN b : b[n] # None /\ t \in jobs'[b[n]].tasks
                                              /\ jobs'[b[n]].done[t].n > 0}
<1>7. \A n \in DOMAIN a :
        a[n] # None =>
          /\ jobs'[a[n]].tasks = jobs[a[n]].tasks
          /\ t \in jobs[a[n]].tasks => jobs'[a[n]].done[t] = jobs[a[n]].done[t]
  BY <1>1, <1>2, <1>6 DEF JobsStay
<1>8. A = B
  <2>1. ASSUME NEW n \in A PROVE n \in B
    <3>1. n \in 0 .. Len(jobs) /\ n \in 0 .. Len(jobs')
      BY <1>6
    <3> QED
      BY <3>1, <1>6, <1>7
  <2>2. ASSUME NEW n \in B PROVE n \in A
    <3>1. n \in 0 .. Len(jobs') /\ b[n] # None
      BY <1>6
    <3>2. n \in 0 .. Len(jobs)
      BY <3>1, <1>6
    <3> QED
      BY <3>1, <3>2, <1>6, <1>7
  <2> QED
    BY <2>1, <2>2
<1>9. Status(j, t) = IF A = {} THEN None ELSE Merged(jobs[a[Min(A)]].done[t].seen)
  BY <1>2 DEF Status, HasResult
<1>10. Status(j, t)' = IF B = {} THEN None ELSE Merged(jobs'[b[Min(B)]].done[t].seen)
  BY <1>3 DEF Status, HasResult
<1>11. CASE A = {}
  BY <1>8, <1>9, <1>10, <1>11
<1>12. CASE A # {}
  <2>1. A \subseteq Nat
    BY <1>6
  <2>2. Min(A) \in A
    BY <1>12, <2>1, LeastIsIn
  <2> DEFINE m == Min(A)
  <2>3. /\ m \in DOMAIN a /\ m \in 0 .. Len(jobs) /\ a[m] # None /\ t \in jobs[a[m]].tasks
        /\ b[m] = a[m] /\ m = Min(B)
    BY <2>2, <1>6, <1>8
  <2>4. jobs'[a[m]].done[t] = jobs[a[m]].done[t]
    BY <2>3, <1>7
  <2> HIDE DEF m, A, B
  <2>5. Status(j, t) = Merged(jobs[a[m]].done[t].seen)
    BY <1>9, <1>12 DEF m
  <2>6. Status(j, t)' = Merged(jobs'[b[m]].done[t].seen)
    BY <1>10, <1>8, <1>12, <2>3
  <2> QED
    BY <2>3, <2>4, <2>5, <2>6
<1> QED
  BY <1>11, <1>12

\* RetriesHideNothing: what a job with a result.json says of a task changes only
\* when a result of that task is recorded in its lineage, so no rerun loses one.
THEOREM StatusesComeFromTheLineage == QueueSpec => RetriesHideNothing
<1> DEFINE Hidden(j, t) ==
             (jobs[j].attached /\ Status(j, t)' # Status(j, t)) =>
               \E k \in {Lineage(j)[n] : n \in DOMAIN Lineage(j)} \ {None} :
                 t \in jobs[k].tasks /\ jobs[k].done[t] # jobs'[k].done[t]
<1>1. QueueInv /\ QueueInv' /\ [QueueNext]_queueVars =>
        [jobs' # jobs => \A j \in Jobs, t \in Tasks : Hidden(j, t)]_queueVars
  BY StatusStays
<1> QED
  BY <1>1, QueueInvHolds, PTL DEF QueueSpec, RetriesHideNothing

-----------------------------------------------------------------------------
(* An interrupted rerun that is given again *)

\* What resolve_run makes of a rerun now, and x was told.
Answers(a, x) ==
  \E s \in Jobs :
    /\ s = SourceOf(a) /\ jobs[s].attached
    /\ x.tasks = Selected(a, s)
    /\ x.invocation = [thinking |-> Inherited(a.thinking, s), from |-> s]

\* Job j is of the sweep, and no incomplete job of it is newer.
IsNewest(j, tasks, trials) ==
  /\ jobs[j].tasks = tasks /\ jobs[j].trials = trials
  /\ \A k \in Jobs : k > j /\ jobs[k].tasks = tasks /\ jobs[k].trials = trials => IsComplete(k)

\* Nothing else runs, so what the command was told still holds.
Undisturbed(p) ==
  /\ \A q \in Terminals \ {p} : cmd[q].step = "idle"
  /\ cmd[p].step \in {"bind", "persist", "attach", "run"} /\ cmd[p].args.rerun =>
       Answers(cmd[p].args, cmd[p])
  /\ cmd[p].step \in {"persist", "attach", "run"} =>
       IsNewest(cmd[p].job, cmd[p].tasks, cmd[p].args.trials)
  /\ cmd[p].step \in {"attach", "run"} => jobs[cmd[p].job].invocation = cmd[p].invocation

\* A command that has run alone finds things as it was told.
AloneInv == \A p \in Terminals : cmd[p].alone => Undisturbed(p)

\* Until the next command takes a job, all is as the interrupted one has left it.
PreviousInv ==
  previous.job # None =>
    /\ previous.args \in Commands /\ previous.job \in Jobs
    /\ \A p \in Terminals : cmd[p].step \in {"idle", "resolve", "bind"}
    /\ IsNewest(previous.job, jobs[previous.job].tasks, previous.args.trials)
    /\ previous.args.rerun =>
         /\ Answers(previous.args, jobs[previous.job])
         /\ \A p \in Terminals : cmd[p].step = "bind" /\ cmd[p].args = previous.args =>
              Answers(previous.args, cmd[p])

\* last-run.json names a job with a result.json.
LastRunInv == lastRun # None /\ jobs[lastRun].attached

\* The inductive invariant of resuming.
ResumeInv == QueueInv /\ LastRunInv /\ AloneInv /\ PreviousInv

\* A job is not in the lineage of its own source.
LEMMA NotItsOwnAncestor ==
  ASSUME QueueInv, NEW j \in Jobs, NEW s \in Jobs, ParentOf(j) = s
  PROVE  \A n \in DOMAIN Lineage(s) : Lineage(s)[n] # j
<1>1. PICK rank : Ranks(rank)
  BY DEF QueueInv, Ranked
<1>2. PICK up : up = Lineage(s)
  OBVIOUS
<1>3. Climbs(up, s)
  BY <1>2, LineagesClimb DEF LineagesAreClimbs
<1> DEFINE L == Len(jobs)
           Good(n) == up[n] # None => up[n] \in Jobs /\ rank[up[n]] <= rank[s]
<1>4. L \in Nat /\ Jobs = 1 .. L /\ JobsInv
  BY JobsForm DEF QueueInv
<1>5. /\ DOMAIN up = 0 .. L /\ up[0] = s
      /\ \A n \in 1 .. L : up[n] = IF up[n - 1] = None THEN None ELSE ParentOf(up[n - 1])
  BY <1>3 DEF Climbs
<1>6. None \notin Jobs
  BY <1>4, QueueAssumption
<1>7. /\ \A i \in Jobs : rank[i] \in Nat
      /\ \A i \in Jobs : ParentOf(i) # None => ParentOf(i) \in Jobs /\ rank[ParentOf(i)] < rank[i]
  BY <1>1, <1>4 DEF Ranks, JobsInv
<1> HIDE DEF L
<1>8. ASSUME NEW n \in 0 .. L, ~Good(n) PROVE FALSE
  <2> DEFINE T == {k \in 0 .. L : ~Good(k)}
  <2>1. PICK m \in T : \A k \in T : <<k, m>> \notin OpToRel(<, Nat)
    <3>1. T \subseteq Nat /\ n \in T
      BY <1>8
    <3> QED
      BY <3>1, NatLessThanWellFounded, WFMin, Zenon
  <2>2. m \in 0 .. L /\ ~Good(m)
    BY <2>1
  <2>3. m # 0
    BY <2>2, <1>5, <1>7
  <2> HIDE DEF Good
  <2>4. m \in 1 .. L /\ m - 1 \in 0 .. L /\ m - 1 < m
    BY <2>2, <2>3, <1>4
  <2>5. Good(m - 1)
    <3>1. m - 1 \in T => <<m - 1, m>> \in OpToRel(<, Nat)
      BY <2>4 DEF OpToRel
    <3> QED
      BY <3>1, <2>1, <2>4
  <2> QED
    <3>1. CASE up[m - 1] = None
      BY <3>1, <2>2, <2>4, <1>5 DEF Good
    <3>2. CASE up[m - 1] # None
      <4>1. PICK x : x = up[m - 1]
        OBVIOUS
      <4>2. x \in Jobs /\ rank[x] <= rank[s] /\ up[m] = ParentOf(x)
        BY <3>2, <4>1, <2>4, <2>5, <1>5 DEF Good
      <4>3. up[m] # None => up[m] \in Jobs /\ rank[up[m]] < rank[x]
        BY <4>2, <1>7
      <4>4. rank[x] \in Nat /\ rank[s] \in Nat /\ (up[m] \in Jobs => rank[up[m]] \in Nat)
        BY <4>2, <1>7
      <4> QED
        BY <4>2, <4>3, <4>4, <2>2 DEF Good
    <3> QED
      BY <3>1, <3>2
<1>9. rank[s] < rank[j] /\ rank[s] \in Nat /\ rank[j] \in Nat /\ j # None
  BY <1>6, <1>7
<1> SUFFICES ASSUME NEW n \in 0 .. L, up[n] = j PROVE FALSE
  BY <1>2, <1>5
<1>10. rank[j] <= rank[s]
  BY <1>8, <1>9
<1> QED
  BY <1>9, <1>10

\* What a rerun was told still holds after any step that finishes no job, as
\* long as no job gets a result but reruns of its source.
LEMMA AnswersStay ==
  ASSUME QueueInv, QueueInv', [QueueNext]_queueVars, LastRunInv, lastRun' = lastRun,
         NEW a \in Commands, NEW j,
         \A k \in Jobs : k # j => jobs'[k].done = jobs[k].done,
         j \in Jobs => jobs'[j].done = jobs[j].done \/ ParentOf(j) = SourceOf(a),
         NEW x, Answers(a, x)
  PROVE  Answers(a, x)'
<1>1. JobsStay
  BY StepsKeep DEF QueueInv, Keeps
<1>2. PICK s \in Jobs : /\ s = SourceOf(a) /\ jobs[s].attached
                        /\ x.tasks = Selected(a, s)
                        /\ x.invocation = [thinking |-> Inherited(a.thinking, s), from |-> s]
  BY DEF Answers
<1>3. s \in Jobs' /\ jobs'[s].attached /\ jobs'[s].invocation = jobs[s].invocation
  BY <1>1, <1>2 DEF JobsStay, QueueInv, JobsInv
<1>4. s = SourceOf(a)'
  <2>1. LatestCompleted' = LatestCompleted
    <3>1. lastRun \in Jobs /\ lastRun # None /\ jobs[lastRun].attached
      BY DEF LastRunInv, QueueInv, QueueTyped
    <3>2. jobs'[lastRun].attached
      BY <1>1, <3>1 DEF JobsStay
    <3> QED
      BY <3>1, <3>2 DEF LatestCompleted
  <2> QED
    BY <1>2, <2>1 DEF SourceOf
<1>5. ASSUME NEW t \in Tasks PROVE Status(s, t)' = Status(s, t)
  <2>1. \A k \in {Lineage(s)[n] : n \in DOMAIN Lineage(s)} \ {None} :
          k \in Jobs /\ jobs'[k].done = jobs[k].done
    <3> TAKE k \in {Lineage(s)[n] : n \in DOMAIN Lineage(s)} \ {None}
    <3>1. k \in Jobs
      <4>1. Len(jobs) \in Nat /\ Jobs = 1 .. Len(jobs) /\ JobsInv
        BY JobsForm DEF QueueInv
      <4>2. PICK n \in 0 .. Len(jobs) : k = Lineage(s)[n]
        <5>1. Lineage(s) = [n \in 0 .. Len(jobs) |-> Lineage(s)[n]]
          BY <4>1, ClimbFacts
        <5>2. DOMAIN Lineage(s) = 0 .. Len(jobs)
          BY <5>1
        <5> QED
          BY <5>2
      <4> QED
        BY <4>1, <4>2, ClimbFacts
    <3>2. ParentOf(j) = s /\ j \in Jobs => k # j
      BY NotItsOwnAncestor
    <3> QED
      BY <1>2, <3>1, <3>2
  <2> QED
    BY <2>1, <1>2, StatusStays
<1>6. Selected(a, s)' = Selected(a, s)
  BY <1>5 DEF Selected, Queue
<1>7. Inherited(a.thinking, s)' = Inherited(a.thinking, s)
  BY <1>3 DEF Inherited
<1> QED
  BY <1>2, <1>3, <1>4, <1>6, <1>7 DEF Answers

\* A job stays the newest incomplete one of its sweep while only it changes.
LEMMA NewestStays ==
  ASSUME Jobs' = Jobs, NEW j \in Jobs, NEW tasks, NEW trials, IsNewest(j, tasks, trials),
         \A k \in Jobs : k # j => jobs'[k] = jobs[k],
         jobs'[j].tasks = jobs[j].tasks, jobs'[j].trials = jobs[j].trials, Jobs \subseteq Nat
  PROVE  IsNewest(j, tasks, trials)'
<1>1. ASSUME NEW k \in Jobs, k > j, jobs'[k].tasks = tasks, jobs'[k].trials = trials
      PROVE  IsComplete(k)'
  <2>1. k # j /\ jobs'[k] = jobs[k]
    BY <1>1
  <2>2. IsComplete(k)
    BY <1>1, <2>1 DEF IsNewest
  <2> QED
    BY <2>1, <2>2 DEF IsComplete
<1> QED
  BY <1>1 DEF IsNewest

\* What a command's own step does to its job.
LEMMA OwnStep ==
  ASSUME QueueTyped, NEW p \in Terminals,
         Persist(p) \/ Attach(p) \/ \E t \in Tasks, s \in Outcomes : RunTrial(p, t, s)
  PROVE  /\ cmd[p].job \in Jobs /\ Jobs' = Jobs
         /\ \A k \in Jobs : k # cmd[p].job => jobs'[k] = jobs[k]
         /\ jobs'[cmd[p].job].tasks = jobs[cmd[p].job].tasks
         /\ jobs'[cmd[p].job].trials = jobs[cmd[p].job].trials
         /\ IF Persist(p) THEN jobs'[cmd[p].job].invocation = cmd[p].invocation
            ELSE jobs'[cmd[p].job].invocation = jobs[cmd[p].job].invocation
         /\ Persist(p) \/ Attach(p) => jobs'[cmd[p].job].done = jobs[cmd[p].job].done
<1> DEFINE j == cmd[p].job
           y == jobs[j]
<1>1. j \in Jobs
  BY DEF QueueTyped, IsCommand, Persist, Attach, RunTrial
<1>2. y = [tasks |-> y.tasks, trials |-> y.trials, invocation |-> y.invocation,
           attached |-> y.attached, done |-> y.done]
  BY <1>1 DEF QueueTyped, IsJob
<1>3. CASE Persist(p)
  <2>1. jobs' = [jobs EXCEPT ![j] = [y EXCEPT !.invocation = cmd[p].invocation]]
    BY <1>3 DEF Persist
  <2> HIDE DEF y, j
  <2>2. Jobs' = Jobs /\ jobs'[j] = [y EXCEPT !.invocation = cmd[p].invocation]
        /\ \A k \in Jobs : k # j => jobs'[k] = jobs[k]
    BY <1>1, <2>1 DEF Jobs
  <2>3. jobs'[j] = [tasks |-> y.tasks, trials |-> y.trials, invocation |-> cmd[p].invocation,
                    attached |-> y.attached, done |-> y.done]
    BY <1>2, <2>2
  <2> QED
    BY <1>1, <1>3, <2>2, <2>3 DEF y, j
<1>4. CASE Attach(p)
  <2>1. jobs' = [jobs EXCEPT ![j] = [y EXCEPT !.attached = TRUE]] /\ ~Persist(p)
    BY <1>4 DEF Attach, Persist
  <2> HIDE DEF y, j
  <2>2. Jobs' = Jobs /\ jobs'[j] = [y EXCEPT !.attached = TRUE]
        /\ \A k \in Jobs : k # j => jobs'[k] = jobs[k]
    BY <1>1, <2>1 DEF Jobs
  <2>3. jobs'[j] = [tasks |-> y.tasks, trials |-> y.trials, invocation |-> y.invocation,
                    attached |-> TRUE, done |-> y.done]
    BY <1>2, <2>2
  <2> QED
    BY <1>1, <1>4, <2>1, <2>2, <2>3 DEF y, j
<1>5. ASSUME NEW t \in Tasks, NEW s \in Outcomes, RunTrial(p, t, s)
      PROVE  /\ Jobs' = Jobs /\ ~Persist(p) /\ ~Attach(p)
             /\ \A k \in Jobs : k # j => jobs'[k] = jobs[k]
             /\ jobs'[j].tasks = y.tasks /\ jobs'[j].trials = y.trials
             /\ jobs'[j].invocation = y.invocation
  <2> DEFINE d == [y.done EXCEPT ![t] = [n |-> y.done[t].n + 1, seen |-> y.done[t].seen \union {s}]]
  <2>1. jobs' = [jobs EXCEPT ![j] = [y EXCEPT !.done = d]] /\ ~Persist(p) /\ ~Attach(p)
    BY <1>5 DEF RunTrial, Persist, Attach
  <2> HIDE DEF y, j, d
  <2>2. Jobs' = Jobs /\ jobs'[j] = [y EXCEPT !.done = d]
        /\ \A k \in Jobs : k # j => jobs'[k] = jobs[k]
    BY <1>1, <2>1 DEF Jobs
  <2>3. jobs'[j] = [tasks |-> y.tasks, trials |-> y.trials, invocation |-> y.invocation,
                    attached |-> y.attached, done |-> d]
    BY <1>2, <2>2
  <2> QED
    BY <2>1, <2>2, <2>3
<1> QED
  BY <1>1, <1>3, <1>4, <1>5

\* A command that runs alone sees no step of another one.
LEMMA AloneMeansAlone ==
  ASSUME QueueTyped, AloneInv, NEW p \in Terminals, NEW q \in Terminals, q # p, Act(q),
         cmd'[p].alone
  PROVE  FALSE
<1>1. /\ cmd = [r \in Terminals |-> cmd[r]]
      /\ cmd[q].step \in QueueSteps
  BY DEF QueueTyped, IsCommand
<1>2. ASSUME NEW a \in Commands, Give(q, a) PROVE FALSE
  <2>1. cmd'[p] = [cmd[p] EXCEPT !.alone = FALSE] /\ IsCommand(cmd[p])
    BY <1>2 DEF Give, QueueTyped
  <2> QED
    BY <2>1 DEF IsCommand
<1>3. ASSUME cmd[q].step # "idle", \E c : cmd' = [cmd EXCEPT ![q] = c] PROVE FALSE
  <2>1. cmd'[p] = cmd[p]
    BY <1>1, <1>3
  <2>2. cmd[q].step = "idle"
    BY <2>1 DEF AloneInv, Undisturbed
  <2> QED
    BY <1>3, <2>2
<1>4. CASE Resolve(q)
  BY <1>3, <1>4 DEF Resolve
<1>5. CASE NothingToRerun(q)
  BY <1>3, <1>5 DEF NothingToRerun, End
<1>6. CASE Create(q)
  BY <1>3, <1>6 DEF Create
<1>7. CASE Resume(q)
  BY <1>3, <1>7 DEF Resume
<1>8. CASE RunActive(q)
  BY <1>3, <1>8 DEF RunActive, End
<1>9. CASE Persist(q)
  BY <1>3, <1>9 DEF Persist, Goto
<1>10. CASE Conflict(q)
  BY <1>3, <1>10 DEF Conflict, End
<1>11. CASE Attach(q)
  BY <1>3, <1>11 DEF Attach, Goto
<1>12. ASSUME NEW t \in Tasks, NEW s \in Outcomes, RunTrial(q, t, s) PROVE FALSE
  <2>1. cmd'[p] = cmd[p] /\ cmd[q].step = "run"
    BY <1>12 DEF RunTrial
  <2> QED
    BY <2>1 DEF AloneInv, Undisturbed
<1>13. CASE Finish(q)
  BY <1>3, <1>13 DEF Finish, End
<1>14. CASE Interrupt(q)
  BY <1>3, <1>14 DEF Interrupt, End
<1> QED
  BY <1>2, <1>4, <1>5, <1>6, <1>7, <1>8, <1>9, <1>10, <1>11, <1>12, <1>13, <1>14 DEF Act

\* A command that ends is no longer one.
LEMMA EndsAlone ==
  ASSUME QueueTyped, NEW p \in Terminals, End(p)
  PROVE  ~cmd'[p].alone /\ cmd'[p].job = None /\ cmd'[p].step = "idle"
BY DEF End, Quiet, QueueTyped

\* Only Finish writes last-run.json, and its job has a result.json.
LEMMA LastRunStays ==
  ASSUME QueueInv, LastRunInv, [QueueNext]_queueVars
  PROVE  LastRunInv'
<1>1. JobsStay
  BY StepsKeep DEF QueueInv, Keeps
<1>2. CASE lastRun' = lastRun
  BY <1>1, <1>2 DEF LastRunInv, JobsStay, QueueInv, QueueTyped
<1>3. CASE \E p \in Terminals : Finish(p)
  <2>1. PICK p \in Terminals : Finish(p)
    BY <1>3
  <2>2. IsCommand(cmd[p]) /\ Prepared(cmd[p])
    BY DEF QueueInv, QueueTyped, CommandsInv
  <2>3. /\ cmd[p].job \in Jobs /\ jobs[cmd[p].job].attached
        /\ lastRun' = cmd[p].job /\ jobs' = jobs
    BY <2>1, <2>2 DEF Finish, IsCommand, Prepared
  <2>4. None \notin Jobs
    BY JobsForm, QueueAssumption DEF QueueInv
  <2> QED
    BY <2>3, <2>4 DEF LastRunInv
<1> QED
  BY <1>2, <1>3 DEF QueueNext, Act, Give, Resolve, NothingToRerun, Create, Resume, RunActive,
    Persist, Conflict, Attach, RunTrial, Interrupt, queueVars

\* A step of a command that runs alone.
LEMMA AloneSteps ==
  ASSUME QueueInv, QueueInv', LastRunInv, AloneInv, NEW p \in Terminals, Act(p), cmd'[p].alone
  PROVE  Undisturbed(p)'
<1>1. /\ cmd = [r \in Terminals |-> cmd[r]] /\ IsCommand(cmd[p]) /\ IsCommand(cmd[p])'
      /\ QueueTyped /\ JobsInv /\ CommandsInv /\ [QueueNext]_queueVars
      /\ Jobs \subseteq Nat
  BY JobsForm DEF QueueInv, QueueTyped, QueueNext
<1>2. ASSUME NEW a \in Commands, Give(p, a) PROVE Undisturbed(p)'
  <2>1. cmd'[p] = [Quiet EXCEPT !.step = "resolve", !.args = a,
                     !.alone = \A r \in Terminals : cmd[r].step = "idle"]
    BY <1>2 DEF Give
  <2>2. cmd'[p].step = "resolve" /\ \A r \in Terminals : cmd[r].step = "idle"
    BY <2>1 DEF Quiet
  <2>3. \A q \in Terminals \ {p} : cmd'[q].step = "idle"
    <3> TAKE q \in Terminals \ {p}
    <3>1. cmd'[q] = [cmd[q] EXCEPT !.alone = FALSE] /\ IsCommand(cmd[q])
      BY <1>2, <1>1 DEF Give, QueueTyped
    <3> QED
      BY <2>2, <3>1 DEF IsCommand
  <2> QED
    BY <2>2, <2>3 DEF Undisturbed
\* The others are idle, and what the command was told still holds.
<1>3. ASSUME NEW c, cmd' = [cmd EXCEPT ![p] = c], c.alone = cmd[p].alone
      PROVE  /\ cmd'[p] = c /\ cmd[p].alone /\ Undisturbed(p)
             /\ \A q \in Terminals \ {p} : cmd'[q].step = "idle"
  <2>1. cmd'[p] = c /\ \A q \in Terminals \ {p} : cmd'[q] = cmd[q]
    BY <1>1, <1>3
  <2>2. cmd[p].alone /\ Undisturbed(p)
    BY <2>1, <1>3 DEF AloneInv
  <2> QED
    BY <2>1, <2>2 DEF Undisturbed
<1>4. CASE Resolve(p)
  <2> DEFINE a == cmd[p].args
             s == IF a.rerun THEN SourceOf(a) ELSE None
  <2>1. PICK c : c = [cmd[p] EXCEPT !.step = "bind",
                        !.tasks = IF a.rerun THEN Selected(a, s) ELSE a.tasks,
                        !.invocation = [thinking |-> Inherited(a.thinking, s), from |-> s]]
    OBVIOUS
  <2>2. /\ cmd' = [cmd EXCEPT ![p] = c] /\ c.step = "bind" /\ c.alone = cmd[p].alone
        /\ c.args = a /\ (a.rerun => CanRerun(a))
        /\ c.tasks = IF a.rerun THEN Selected(a, s) ELSE a.tasks
        /\ c.invocation = [thinking |-> Inherited(a.thinking, s), from |-> s]
    BY <1>4, <2>1, <1>1 DEF Resolve, IsCommand
  <2>3. cmd'[p] = c /\ \A q \in Terminals \ {p} : cmd'[q].step = "idle"
    BY <2>2, <1>3
  <2>4. a.rerun => Answers(a, c)
    <3> HIDE DEF a
    <3>1. ASSUME a.rerun PROVE s = SourceOf(a) /\ s \in Jobs /\ jobs[s].attached
      <4>1. CanRerun(a) /\ s = SourceOf(a)
        BY <2>2, <3>1
      <4> QED
        BY <4>1 DEF CanRerun
    <3> HIDE DEF s
    <3> QED
      BY <2>2, <3>1 DEF Answers
  <2>5. PICK e : e = a
    OBVIOUS
  <2>6. e.rerun => Answers(e, c)'
    <3>1. e \in Commands /\ lastRun' = lastRun /\ jobs' = jobs
      BY <1>4, <1>1, <2>5 DEF Resolve, IsCommand
    <3>2. ASSUME e.rerun PROVE Answers(e, c)'
      <4>1. Answers(e, c)
        BY <3>2, <2>4, <2>5
      <4> QED
        BY <1>1, <3>1, <4>1, AnswersStay
    <3> QED
      BY <3>2
  <2>7. c.args = e /\ c.step = "bind"
    BY <2>2, <2>5
  <2> HIDE DEF a, s
  <2> QED
    BY <2>3, <2>6, <2>7 DEF Undisturbed
<1>5. CASE Create(p)
  <2>1. PICK c : c = [cmd[p] EXCEPT !.step = "persist", !.job = Len(jobs')]
    OBVIOUS
  <2>2. /\ cmd' = [cmd EXCEPT ![p] = c] /\ c.step = "persist" /\ c.alone = cmd[p].alone
        /\ c.args = cmd[p].args /\ c.tasks = cmd[p].tasks /\ c.job = Len(jobs')
        /\ c.invocation = cmd[p].invocation
    BY <1>5, <2>1, <1>1 DEF Create, IsCommand
  <2>3. cmd'[p] = c /\ Undisturbed(p) /\ \A q \in Terminals \ {p} : cmd'[q].step = "idle"
    BY <2>2, <1>3
  <2>4. /\ jobs' = Append(jobs, NewJob(p)) /\ lastRun' = lastRun /\ cmd[p].step = "bind"
        /\ cmd[p].args \in Commands
    BY <1>5, <1>1 DEF Create, IsCommand
  <2>5. /\ jobs \in Seq({jobs[k] : k \in Jobs} \union {NewJob(p)})
        /\ Len(jobs) \in Nat /\ Jobs = 1 .. Len(jobs)
    <3>1. jobs \in Seq({jobs[k] : k \in Jobs})
      BY <1>1 DEF QueueTyped
    <3> QED
      BY <3>1, <1>1, JobsForm, SeqMonotonic
  <2>6. /\ Len(jobs') = Len(jobs) + 1 /\ jobs'[Len(jobs')] = NewJob(p)
        /\ \A k \in Jobs : jobs'[k] = jobs[k]
    BY <2>4, <2>5
  <2>7. Jobs' = 1 .. Len(jobs')
    BY <2>4, <2>5, LenProperties DEF Jobs
  <2>8. IsNewest(c.job, c.tasks, c.args.trials)'
    BY <2>2, <2>5, <2>6, <2>7 DEF IsNewest, NewJob
  <2>9. PICK x : x = cmd[p]
    OBVIOUS
  <2>10. x.args.rerun => Answers(x.args, c)'
    <3>1. ASSUME x.args.rerun PROVE Answers(x.args, c)'
      <4>1. Answers(x.args, c)
        BY <3>1, <2>2, <2>3, <2>4, <2>9 DEF Undisturbed, Answers
      <4> QED
        BY <1>1, <2>4, <2>6, <2>9, <4>1, AnswersStay
    <3> QED
      BY <3>1
  <2> QED
    BY <2>2, <2>3, <2>8, <2>9, <2>10 DEF Undisturbed
<1>6. CASE Resume(p)
  <2>1. PICK c : c = [cmd[p] EXCEPT !.step = "persist", !.job = Max(Matching(p))]
    OBVIOUS
  <2>2. /\ cmd' = [cmd EXCEPT ![p] = c] /\ c.step = "persist" /\ c.alone = cmd[p].alone
        /\ c.args = cmd[p].args /\ c.tasks = cmd[p].tasks /\ c.job = Max(Matching(p))
        /\ c.invocation = cmd[p].invocation
    BY <1>6, <2>1, <1>1 DEF Resume, IsCommand
  <2>3. cmd'[p] = c /\ Undisturbed(p) /\ \A q \in Terminals \ {p} : cmd'[q].step = "idle"
    BY <2>2, <1>3
  <2>4. /\ jobs' = jobs /\ lastRun' = lastRun /\ cmd[p].step = "bind"
        /\ cmd[p].args \in Commands
    BY <1>6, <1>1 DEF Resume, IsCommand
  <2>5. /\ Max(Matching(p)) \in Matching(p)
        /\ \A k \in Matching(p) : k <= Max(Matching(p))
    <3>1. Matching(p) \subseteq 1 .. Len(jobs) /\ Matching(p) # {} /\ Len(jobs) \in Nat
      BY <1>6, <1>1, JobsForm DEF Matching, Resume
    <3> QED
      BY <3>1, LargestIsIn
  <2>6. IsNewest(c.job, c.tasks, c.args.trials)
    <3>1. ASSUME NEW k \in Jobs, k > c.job, jobs[k].tasks = c.tasks,
                 jobs[k].trials = c.args.trials
          PROVE  IsComplete(k)
      <4>1. k \notin Matching(p)
        BY <3>1, <2>2, <2>5, <1>1 DEF Matching
      <4> QED
        BY <3>1, <2>2, <4>1 DEF Matching
    <3> QED
      BY <3>1, <2>2, <2>5 DEF IsNewest, Matching
  <2>7. IsNewest(c.job, c.tasks, c.args.trials)'
    <3>1. c.job \in Jobs /\ Jobs' = Jobs
      BY <2>2, <2>4, <2>5 DEF Matching, Jobs
    <3> QED
      BY <2>4, <2>6, <3>1, <1>1, NewestStays
  <2>8. PICK x : x = cmd[p]
    OBVIOUS
  <2>9. x.args.rerun => Answers(x.args, c)'
    <3>1. ASSUME x.args.rerun PROVE Answers(x.args, c)'
      <4>1. Answers(x.args, c)
        BY <3>1, <2>2, <2>3, <2>4, <2>8 DEF Undisturbed, Answers
      <4> QED
        BY <1>1, <2>4, <2>8, <4>1, AnswersStay
    <3> QED
      BY <3>1
  <2> QED
    BY <2>2, <2>3, <2>7, <2>8, <2>9 DEF Undisturbed
<1>7. ASSUME Persist(p) \/ Attach(p) \/ \E t \in Tasks, s \in Outcomes : RunTrial(p, t, s)
      PROVE  Undisturbed(p)'
  <2>1. PICK x : x = cmd[p]
    OBVIOUS
  <2>2. PICK c : c = cmd'[p]
    OBVIOUS
  <2>3. /\ cmd' = [cmd EXCEPT ![p] = c] /\ c.alone = x.alone /\ c.args = x.args
        /\ c.tasks = x.tasks /\ c.invocation = x.invocation /\ c.job = x.job
        /\ x.step \in {"persist", "attach", "run"} /\ c.step \in {"attach", "run"}
        /\ ~Persist(p) => x.step \in {"attach", "run"}
        /\ ~Persist(p) /\ ~Attach(p) => x.step = "run"
        /\ lastRun' = lastRun
    <3>1. CASE Persist(p)
      BY <3>1, <1>1, <2>1, <2>2 DEF Persist, Goto, IsCommand
    <3>2. CASE Attach(p)
      BY <3>2, <1>1, <2>1, <2>2 DEF Attach, Goto, IsCommand
    <3>3. CASE \E t \in Tasks, s \in Outcomes : RunTrial(p, t, s)
      BY <3>3, <1>1, <2>1, <2>2 DEF RunTrial, IsCommand
    <3> QED
      BY <3>1, <3>2, <3>3, <1>7
  <2>4. Undisturbed(p) /\ \A q \in Terminals \ {p} : cmd'[q].step = "idle"
    BY <1>3, <2>1, <2>3
  <2>5. PICK j : j = cmd[p].job
    OBVIOUS
  <2>6. /\ j \in Jobs /\ Jobs' = Jobs
        /\ \A k \in Jobs : k # j => jobs'[k] = jobs[k]
        /\ jobs'[j].tasks = jobs[j].tasks /\ jobs'[j].trials = jobs[j].trials
        /\ IF Persist(p) THEN jobs'[j].invocation = x.invocation
           ELSE jobs'[j].invocation = jobs[j].invocation
        /\ Persist(p) \/ Attach(p) => jobs'[j].done = jobs[j].done
    BY <1>1, <1>7, <2>1, <2>5, OwnStep
  <2>7. IsNewest(j, x.tasks, x.args.trials)'
    <3>1. IsNewest(j, x.tasks, x.args.trials)
      BY <2>1, <2>3, <2>4, <2>5 DEF Undisturbed
    <3> QED
      BY <1>1, <2>6, <3>1, NewestStays
  <2>8. ASSUME x.args.rerun PROVE Answers(x.args, c)'
    <3>1. Answers(x.args, c)
      BY <2>8, <2>1, <2>3, <2>4 DEF Undisturbed, Answers
    <3>2. jobs'[j].done = jobs[j].done \/ ParentOf(j) = SourceOf(x.args)
      <4>1. SUFFICES ASSUME ~Persist(p), ~Attach(p) PROVE ParentOf(j) = SourceOf(x.args)
        BY <2>6
      <4>2. jobs[j].invocation = x.invocation /\ jobs[j].invocation # None
        <5>1. Prepared(cmd[p])
          BY <1>1 DEF CommandsInv
        <5> QED
          BY <4>1, <5>1, <2>1, <2>3, <2>4, <2>5 DEF Undisturbed, Prepared
      <4>3. x.invocation.from = SourceOf(x.args)
        BY <3>1, <2>3 DEF Answers
      <4> QED
        BY <4>2, <4>3 DEF ParentOf
    <3>3. x.args \in Commands
      BY <1>1, <2>1, <2>3 DEF IsCommand
    <3>4. \A k \in Jobs : k # j => jobs'[k].done = jobs[k].done
      BY <2>6
    <3> QED
      BY <1>1, <2>3, <3>1, <3>2, <3>3, <3>4, AnswersStay
  <2>9. jobs'[j].invocation = x.invocation
    BY <2>1, <2>3, <2>4, <2>5, <2>6 DEF Undisturbed
  <2> QED
    BY <2>1, <2>2, <2>3, <2>4, <2>5, <2>7, <2>8, <2>9 DEF Undisturbed
<1>8. ASSUME End(p) PROVE FALSE
  BY <1>1, <1>8, EndsAlone
<1> QED
  BY <1>2, <1>4, <1>5, <1>6, <1>7, <1>8
     DEF Act, NothingToRerun, RunActive, Conflict, Finish, Interrupt

\* The invariant of commands that run alone is kept by every step.
LEMMA AloneStays ==
  ASSUME QueueInv, QueueInv', LastRunInv, AloneInv, [QueueNext]_queueVars
  PROVE  AloneInv'
<1> SUFFICES ASSUME NEW p \in Terminals, cmd'[p].alone PROVE Undisturbed(p)'
  BY DEF AloneInv
<1>1. CASE UNCHANGED queueVars
  <2>1. cmd' = cmd /\ jobs' = jobs /\ lastRun' = lastRun
    BY <1>1 DEF queueVars
  <2>2. Undisturbed(p)
    BY <2>1 DEF AloneInv
  <2>3. PICK x : x = cmd[p]
    OBVIOUS
  <2>4. ASSUME x.step \in {"bind", "persist", "attach", "run"}, x.args.rerun
        PROVE  Answers(x.args, x)'
    <3>1. Answers(x.args, x)
      BY <2>2, <2>3, <2>4 DEF Undisturbed
    <3>2. x.args \in Commands
      BY <2>3, <2>4 DEF QueueInv, QueueTyped, IsCommand
    <3> QED
      BY <2>1, <3>1, <3>2, AnswersStay
  <2>5. ASSUME x.step \in {"persist", "attach", "run"}
        PROVE  IsNewest(x.job, x.tasks, x.args.trials)'
    <3>1. x.job \in Jobs /\ Jobs' = Jobs /\ Jobs \subseteq Nat
      BY <2>1, <2>3, <2>5, JobsForm DEF QueueInv, QueueTyped, IsCommand, Jobs
    <3> QED
      BY <2>1, <2>2, <2>3, <2>5, <3>1, NewestStays DEF Undisturbed
  <2> QED
    BY <2>1, <2>2, <2>3, <2>4, <2>5 DEF Undisturbed
<1>2. ASSUME NEW q \in Terminals, Act(q) PROVE Undisturbed(p)'
  <2>1. CASE q = p
    BY <1>2, <2>1, AloneSteps
  <2>2. CASE q # p
    BY <1>2, <2>2, AloneMeansAlone DEF QueueInv
  <2> QED
    BY <2>1, <2>2
<1> QED
  BY <1>1, <1>2 DEF QueueNext

\* A command is told what resolving gives at that moment.
LEMMA ResolvedAnswers ==
  ASSUME QueueTyped, NEW q \in Terminals, Resolve(q), NEW c, c = cmd'[q]
  PROVE  /\ c.step = "bind" /\ c.args = cmd[q].args
         /\ cmd[q].args.rerun => Answers(cmd[q].args, c)
<1>1. PICK a : a = cmd[q].args
  OBVIOUS
<1>2. PICK s : s = IF a.rerun THEN SourceOf(a) ELSE None
  OBVIOUS
<1>3. c = [cmd[q] EXCEPT !.step = "bind",
             !.tasks = IF a.rerun THEN Selected(a, s) ELSE a.tasks,
             !.invocation = [thinking |-> Inherited(a.thinking, s), from |-> s]]
  BY <1>1, <1>2 DEF Resolve, QueueTyped
<1>4. IsCommand(cmd[q])
  BY DEF QueueTyped
<1>5. /\ c.step = "bind" /\ c.args = a
      /\ c.tasks = IF a.rerun THEN Selected(a, s) ELSE a.tasks
      /\ c.invocation = [thinking |-> Inherited(a.thinking, s), from |-> s]
  BY <1>1, <1>3, <1>4 DEF IsCommand
<1>6. ASSUME a.rerun PROVE s = SourceOf(a) /\ s \in Jobs /\ jobs[s].attached
  BY <1>1, <1>2, <1>6 DEF Resolve, CanRerun
<1> QED
  BY <1>1, <1>5, <1>6 DEF Answers

\* Steps that touch neither the jobs nor what was interrupted.
LEMMA PreviousUntouched ==
  ASSUME QueueInv, QueueInv', LastRunInv, PreviousInv, [QueueNext]_queueVars,
         previous' = previous, jobs' = jobs, lastRun' = lastRun, previous.job # None,
         \A p \in Terminals :
           /\ cmd'[p].step \in {"idle", "resolve", "bind"}
           /\ cmd'[p].step = "bind" /\ cmd'[p].args = previous.args /\ previous.args.rerun =>
                Answers(previous.args, cmd'[p])
  PROVE  PreviousInv'
<1>1. PICK r : r = previous
  OBVIOUS
<1>2. PICK y : y = jobs[r.job]
  OBVIOUS
<1>3. /\ r.args \in Commands /\ r.job \in Jobs /\ IsNewest(r.job, y.tasks, r.args.trials)
      /\ r.args.rerun => Answers(r.args, y)
  BY <1>1, <1>2 DEF PreviousInv
<1>4. Jobs' = Jobs /\ Jobs \subseteq Nat
  BY JobsForm DEF QueueInv, Jobs
<1>5. IsNewest(r.job, y.tasks, r.args.trials)'
  BY <1>3, <1>4, NewestStays
<1>6. ASSUME NEW x, Answers(r.args, x) PROVE Answers(r.args, x)'
  BY <1>3, <1>6, AnswersStay
<1>7. r.args.rerun => Answers(r.args, y)'
  BY <1>3, <1>6
<1>8. ASSUME NEW p \in Terminals, cmd'[p].step = "bind", cmd'[p].args = r.args, r.args.rerun
      PROVE  Answers(previous.args, cmd[p])'
  <2>1. PICK c : c = cmd'[p]
    OBVIOUS
  <2>2. Answers(r.args, c)
    BY <1>1, <1>8, <2>1
  <2>3. Answers(r.args, c)'
    BY <2>2, <1>6
  <2> QED
    BY <2>1, <2>3, <1>1
<1>9. Answers(r.args, y)' => Answers(previous.args, jobs[previous.job])'
  BY <1>1, <1>2
<1>10. IsNewest(previous.job, jobs[previous.job].tasks, previous.args.trials)'
  BY <1>1, <1>2, <1>5
<1>11. /\ previous'.args \in Commands /\ previous'.job \in Jobs'
       /\ previous'.args.rerun => Answers(previous.args, jobs[previous.job])'
  BY <1>1, <1>3, <1>4, <1>7, <1>9
<1> QED
  BY <1>1, <1>8, <1>10, <1>11 DEF PreviousInv

\* What is known of the interrupted command is kept by every step.
LEMMA PreviousStays ==
  ASSUME QueueInv, QueueInv', LastRunInv, AloneInv, PreviousInv, [QueueNext]_queueVars
  PROVE  PreviousInv'
<1> SUFFICES ASSUME previous'.job # None PROVE PreviousInv'
  BY DEF PreviousInv
<1>1. QueueTyped /\ cmd = [r \in Terminals |-> cmd[r]] /\ Jobs \subseteq Nat
  BY JobsForm DEF QueueInv, QueueTyped
<1>2. CASE UNCHANGED queueVars
  BY <1>2, PreviousUntouched DEF queueVars, PreviousInv
<1>3. ASSUME NEW q \in Terminals, Act(q) PROVE PreviousInv'
  <2>1. ASSUME NEW a \in Commands, Give(q, a) PROVE PreviousInv'
    <3>1. previous' = previous /\ jobs' = jobs /\ lastRun' = lastRun
      BY <2>1 DEF Give
    <3>2. ASSUME NEW p \in Terminals
          PROVE  /\ cmd'[p].step \in {"idle", "resolve", "bind"}
                 /\ cmd'[p].step = "bind" /\ cmd'[p].args = previous.args
                      /\ previous.args.rerun =>
                      Answers(previous.args, cmd'[p])
      <4>1. CASE p = q
        <5>1. cmd'[p].step = "resolve"
          BY <2>1, <4>1 DEF Give, Quiet
        <5> QED
          BY <5>1
      <4>2. CASE p # q
        <5>1. cmd'[p] = [cmd[p] EXCEPT !.alone = FALSE] /\ IsCommand(cmd[p])
          BY <2>1, <4>2, <1>1 DEF Give, QueueTyped
        <5>2. /\ cmd'[p].step = cmd[p].step /\ cmd'[p].args = cmd[p].args
              /\ cmd'[p].tasks = cmd[p].tasks /\ cmd'[p].invocation = cmd[p].invocation
          BY <5>1 DEF IsCommand
        <5> QED
          BY <3>1, <5>2 DEF PreviousInv, Answers
      <4> QED
        BY <4>1, <4>2
    <3> QED
      BY <3>1, <3>2, PreviousUntouched
  <2>2. CASE Resolve(q)
    <3>1. previous' = previous /\ jobs' = jobs /\ lastRun' = lastRun
      BY <2>2 DEF Resolve
    <3>2. ASSUME NEW p \in Terminals
          PROVE  /\ cmd'[p].step \in {"idle", "resolve", "bind"}
                 /\ cmd'[p].step = "bind" /\ cmd'[p].args = previous.args
                      /\ previous.args.rerun =>
                      Answers(previous.args, cmd'[p])
      <4>1. CASE p = q
        <5>1. PICK c : c = cmd'[q]
          OBVIOUS
        <5>2. /\ c.step = "bind" /\ c.args = cmd[q].args
              /\ cmd[q].args.rerun => Answers(cmd[q].args, c)
          BY <2>2, <5>1, <1>1, ResolvedAnswers
        <5> QED
          BY <4>1, <5>1, <5>2
      <4>2. CASE p # q
        <5>1. cmd'[p] = cmd[p]
          BY <2>2, <4>2, <1>1 DEF Resolve
        <5> QED
          BY <3>1, <5>1 DEF PreviousInv
      <4> QED
        BY <4>1, <4>2
    <3> QED
      BY <3>1, <3>2, PreviousUntouched
  <2>3. CASE \/ Persist(q) \/ Attach(q)
             \/ \E t \in Tasks, s \in Outcomes : RunTrial(q, t, s)
    <3>1. /\ previous' = previous
          /\ cmd[q].step \in {"persist", "attach", "run"}
      BY <2>3 DEF Persist, Attach, RunTrial
    <3> QED
      BY <3>1 DEF PreviousInv
  <2>4. CASE \/ NothingToRerun(q) \/ Create(q) \/ Resume(q) \/ RunActive(q)
             \/ Conflict(q) \/ Finish(q)
    <3>1. previous' = NoCommand
      BY <2>4 DEF NothingToRerun, Create, Resume, RunActive, Conflict, Finish
    <3> QED
      BY <3>1 DEF NoCommand
  <2>5. CASE Interrupt(q)
    <3>1. PICK x : x = cmd[q]
      OBVIOUS
    <3>2. /\ x.step \in {"attach", "run"} /\ x.alone
          /\ previous' = [args |-> x.args, job |-> x.job]
          /\ jobs' = jobs /\ lastRun' = lastRun
      BY <2>5, <3>1 DEF Interrupt, NoCommand
    <3>3. Undisturbed(q)
      BY <3>1, <3>2 DEF AloneInv
    <3>4. \A p \in Terminals : cmd'[p].step = "idle"
      BY <2>5, <3>3, <1>1 DEF Interrupt, End, Quiet, Undisturbed
    <3>5. /\ x.job \in Jobs /\ x.args \in Commands
          /\ jobs[x.job].invocation = x.invocation
          /\ IsNewest(x.job, x.tasks, x.args.trials)
          /\ x.args.rerun => Answers(x.args, x)
      BY <3>1, <3>2, <3>3, <1>1 DEF Undisturbed, QueueTyped, IsCommand
    <3>6. PICK y : y = jobs[x.job]
      OBVIOUS
    <3>7. y.tasks = x.tasks /\ y.invocation = x.invocation
      BY <3>5, <3>6 DEF IsNewest
    <3>8. Jobs' = Jobs
      BY <3>2 DEF Jobs
    <3>9. IsNewest(x.job, y.tasks, x.args.trials)'
      BY <3>2, <3>5, <3>7, <3>8, <1>1, NewestStays
    <3>10. x.args.rerun => Answers(x.args, y)'
      <4>1. ASSUME x.args.rerun PROVE Answers(x.args, y)'
        <5>1. Answers(x.args, y)
          BY <4>1, <3>5, <3>7 DEF Answers
        <5> QED
          BY <3>2, <3>5, <5>1, AnswersStay
      <4> QED
        BY <4>1
    <3>11. previous'.args = x.args /\ previous'.job = x.job /\ jobs'[x.job] = y
      BY <3>2, <3>6
    <3>12. IsNewest(previous.job, jobs[previous.job].tasks, previous.args.trials)'
      BY <3>9, <3>11
    <3>13. x.args.rerun => Answers(previous.args, jobs[previous.job])'
      BY <3>10, <3>11
    <3> QED
      BY <3>4, <3>5, <3>8, <3>11, <3>12, <3>13 DEF PreviousInv
  <2> QED
    BY <1>3, <2>1, <2>2, <2>3, <2>4, <2>5 DEF Act
<1> QED
  BY <1>2, <1>3 DEF QueueNext

\* A command's job changes in its own steps only.
LEMMA OthersKeepJobs ==
  ASSUME QueueTyped, NEW p \in Terminals, NEW q \in Terminals, q # p, Act(q)
  PROVE  cmd'[p].job = cmd[p].job
<1>1. cmd = [r \in Terminals |-> cmd[r]] /\ IsCommand(cmd[p])
  BY DEF QueueTyped
<1>2. ASSUME NEW a \in Commands, Give(q, a) PROVE cmd'[p].job = cmd[p].job
  <2>1. cmd'[p] = [cmd[p] EXCEPT !.alone = FALSE]
    BY <1>2 DEF Give
  <2> QED
    BY <2>1, <1>1 DEF IsCommand
<1>3. ASSUME \A a \in Commands : ~Give(q, a) PROVE cmd'[p] = cmd[p]
  BY <1>1, <1>3 DEF Act, Resolve, NothingToRerun, Create, Resume, RunActive, Persist,
    Conflict, Attach, RunTrial, Finish, Interrupt, End, Goto
<1> QED
  BY <1>2, <1>3

\* An interrupted rerun that is given again as the next command resumes a job
\* that it may take up, provided a command had completed before: with no
\* last-run.json the interrupted job itself may be the latest attached one.
THEOREM InterruptedRerunsResume ==
  ASSUME OldLastRun # None, OldJobs[OldLastRun].attached
  PROVE  QueueSpec => InterruptedRetryResumes
<1>1. QueueInit => ResumeInv
  <2> SUFFICES ASSUME QueueInit PROVE ResumeInv
    OBVIOUS
  <2>1. QueueInv
    BY QueueInvInit
  <2>2. LastRunInv
    BY DEF QueueInit, LastRunInv
  <2>3. AloneInv /\ PreviousInv
    BY DEF QueueInit, AloneInv, PreviousInv, Quiet, NoCommand
  <2> QED
    BY <2>1, <2>2, <2>3 DEF ResumeInv
<1>2. ResumeInv /\ [QueueNext]_queueVars => ResumeInv'
  BY QueueInvNext, LastRunStays, AloneStays, PreviousStays DEF ResumeInv
<1>3. ASSUME ResumeInv, [QueueNext]_queueVars, NEW p \in Terminals,
             cmd[p].step = "bind", cmd'[p].job # None,
             cmd[p].args = previous.args, cmd[p].args.rerun, ~cmd[p].args.new,
             previous.job # None, ~IsComplete(previous.job)
      PROVE  /\ jobs' = jobs
             /\ jobs[cmd'[p].job].invocation \in {None, cmd[p].invocation}
  <2>1. /\ QueueTyped /\ cmd = [r \in Terminals |-> cmd[r]]
        /\ IsCommand(cmd[p]) /\ cmd[p].job = None
        /\ Len(jobs) \in Nat /\ Jobs = 1 .. Len(jobs)
    BY <1>3, JobsForm DEF ResumeInv, QueueInv, QueueTyped, IsCommand
  <2>2. PICK j : j = previous.job
    OBVIOUS
  <2>3. /\ j \in Jobs
        /\ IsNewest(j, jobs[j].tasks, cmd[p].args.trials)
        /\ Answers(cmd[p].args, jobs[j]) /\ Answers(cmd[p].args, cmd[p])
    BY <1>3, <2>2 DEF ResumeInv, PreviousInv
  <2>4. cmd[p].tasks = jobs[j].tasks /\ cmd[p].invocation = jobs[j].invocation
    BY <2>3 DEF Answers
  <2>5. j \in Matching(p) /\ \A k \in Matching(p) : k <= j
    BY <1>3, <2>1, <2>2, <2>3, <2>4 DEF Matching, IsNewest
  <2>6. Act(p)
    <3>1. ~UNCHANGED queueVars
      BY <1>3, <2>1 DEF queueVars
    <3>2. PICK q \in Terminals : Act(q)
      BY <1>3, <3>1 DEF QueueNext
    <3> QED
      BY <1>3, <2>1, <3>2, OthersKeepJobs
  <2>7. ~End(p)
    BY <1>3, <2>1, EndsAlone
  <2>8. ~Create(p)
    BY <1>3, <2>5 DEF Create
  <2>9. Resume(p)
    BY <1>3, <2>6, <2>7, <2>8
       DEF Act, Give, Resolve, NothingToRerun, RunActive, Persist, Conflict, Attach,
           RunTrial, Finish, Interrupt
  <2>10. /\ Max(Matching(p)) \in Matching(p)
         /\ \A k \in Matching(p) : k <= Max(Matching(p))
    <3>1. Matching(p) \subseteq 1 .. Len(jobs) /\ Matching(p) # {}
      BY <2>1, <2>5 DEF Matching
    <3> QED
      BY <3>1, <2>1, LargestIsIn
  <2>11. Max(Matching(p)) = j
    <3>1. Matching(p) \subseteq Nat
      BY <2>1 DEF Matching
    <3> QED
      BY <3>1, <2>5, <2>10
  <2>12. cmd'[p].job = j /\ jobs' = jobs
    BY <2>1, <2>9, <2>11 DEF Resume, IsCommand
  <2> QED
    BY <2>4, <2>12
<1>4. ResumeInv /\ [QueueNext]_queueVars =>
        [\A p \in Terminals :
           (/\ cmd[p].step = "bind" /\ cmd'[p].job # None
            /\ cmd[p].args = previous.args /\ cmd[p].args.rerun /\ ~cmd[p].args.new
            /\ previous.job # None /\ ~IsComplete(previous.job))
           => /\ jobs' = jobs
              /\ jobs[cmd'[p].job].invocation \in {None, cmd[p].invocation}]_queueVars
  BY <1>3
<1> QED
  BY <1>1, <1>2, <1>4, PTL DEF QueueSpec, InterruptedRetryResumes
=============================================================================
