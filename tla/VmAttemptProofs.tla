--------------------------- MODULE VmAttemptProofs ---------------------------
(***************************************************************************)
(* Proofs about VmAttempt, for every set of commands and of attempts and   *)
(* every number of retries, failures, crashes and deletions.               *)
(*                                                                         *)
(* The argument: an attempt publishes to the cache without its lock, but   *)
(* only while its command is past the preparation.  As long as nobody      *)
(* deletes the file, that means the cache is ready, so the publication     *)
(* changes nothing and only the holder of the lock ever does.              *)
(***************************************************************************)
EXTENDS VmAttempt, TLAPS

\* Steps that only the holder of the lock takes.
Critical == {"locked", "clearing", "populating"}

\* The cache: its lock excludes, and what prepare_once has found or made stays.
CacheInv ==
  \A p \in Processes :
    /\ pc[p] \in Critical => holder = p
    /\ pc[p] = "populating" => target # "unready"
    /\ (pc[p] = "prepared" /\ deletions = 0) => target = "ready"
    /\ (pc[p] = "clearing" /\ deletions = 0) => target # "ready"

\* An attempt that runs belongs to a command that has prepared the cache.
OwnerInv ==
  \A a \in Attempts : stage[a] \in Live => pc[Owner[a]] = "prepared"

\* A machine runs only between its start and its shutdown, on a disk that the
\* attempt still has, or after an error, until the agent's tools are dropped.
MachineInv ==
  \A a \in Attempts :
    /\ vm[a] # "off" =>
         \/ stage[a] \in {"agent", "running", "stopping"} /\ vm[a] \in roots[a]
         \/ stage[a] \in {"done", "recorded"} /\ verdict[a] = "error"
    /\ stage[a] \in Live => "rootfs" \in roots[a]
    /\ (stage[a] \in Live /\ a \in separate) => "verifier-rootfs" \in roots[a]
    /\ stage[a] = "respawning" => a \in separate
    /\ a \in separate => stage[a] \notin {"looking", "opening", "copying"}

\* The clone of the cache, from the first look at the cache to its removal.
CloneInv ==
  \A a \in Attempts :
    /\ stage[a] \in {"queued", "looking", "opening", "copying"} => ~skip[a]
    /\ a \in separate => ~skip[a]
    /\ stage[a] = "copying" => target # "unready"
    /\ (skip[a] /\ stage[a] \in {"spawning", "agent", "running", "stopping"})
         => clone[a] = "populated"
    /\ (a \notin separate /\ stage[a] \in {"spawning", "agent", "running", "stopping"})
         => /\ clone[a] # "none"
            /\ deletions = 0 => clone[a] = "populated"
    /\ stage[a] = "scoring" => clone[a] = "none"

\* The inductive invariant.
IInv == TypeOK /\ CacheInv /\ OwnerInv /\ MachineInv /\ CloneInv /\ ScoredDisks

-----------------------------------------------------------------------------
(* Lemmas about the operators of the cache *)

\* Giving up the lock, or not having had it, only ends the own entry of pc.
LEMMA LeaveKeepsLock ==
  ASSUME NEW p \in Processes, NEW next \in Step \ Critical,
         CacheTypeOK, Leave(p, next),
         \A q \in Processes : pc[q] \in Critical => holder = q
  PROVE  /\ holder' \in Processes \union {None}
         /\ pc' \in [Processes -> Step]
         /\ pc'[p] = next
         /\ \A q \in Processes \ {p} : pc'[q] = pc[q]
         /\ \A q \in Processes : pc'[q] \in Critical => holder' = q
BY DEF Leave, CacheTypeOK

\* A disk of a machine that is down never makes the cache unready, and nothing
\* that is offered replaces what is there.
LEMMA MarkReadyOnlyFills ==
  ASSUME NEW content, CacheTypeOK, MarkReady(content, FALSE)
  PROVE  /\ target' \in {"absent", "unready", "ready"}
         /\ target' = "unready" => target = "unready"
         /\ target # "absent" => target' = target
         /\ (content = "populated" /\ target = "absent") => target' = "ready"
BY DEF MarkReady, CacheTypeOK

-----------------------------------------------------------------------------
(* Initial states *)

LEMMA InitIInv == Init => IInv
BY CacheAssumption, AttemptAssumption
DEF Init, CacheInit, IInv, TypeOK, CacheTypeOK, CacheInv, OwnerInv, MachineInv,
    CloneInv, ScoredDisks, Critical, Live, Setup, Working, Stage, Step, Preparing

-----------------------------------------------------------------------------
(* Steps of a preparation *)

\* The lock, the file and the attempts under each step of prepare_once.
LEMMA PrepareKeeps ==
  ASSUME IInv, NEW p \in Processes, Prepare(p), UNCHANGED attemptVars
  PROVE  /\ IInv'
         /\ target' = "unready" => target = "unready"
         /\ (target = "ready" /\ deletions' = 0) => target' = "ready"
         /\ pc[p] # "prepared"
<1> USE DEF Critical
<1>1. pc[p] # "prepared"
  BY DEF Prepare, Look, Open, Lock, LookAgain, Clear, Populate, PopulateFails
<1>2. /\ CacheTypeOK' /\ CacheInv'
      /\ \A q \in Processes \ {p} : pc'[q] = pc[q]
      /\ deletions' = deletions
      /\ target' = "unready" => target = "unready"
      /\ (target = "ready" /\ deletions' = 0) => target' = "ready"
  <2> USE DEF IInv, TypeOK
  <2>1. CASE Look(p)
    BY <2>1 DEF Look, CacheTypeOK, CacheInv, Step, Preparing
  <2>2. CASE Open(p)
    BY <2>2 DEF Open, CacheTypeOK, CacheInv, Step, Preparing
  <2>3. CASE Lock(p)
    BY <2>3, CacheAssumption DEF Lock, CacheTypeOK, CacheInv, Step, Preparing
  <2>4. CASE LookAgain(p)
    BY <2>4 DEF LookAgain, Leave, CacheTypeOK, CacheInv, Step, Preparing
  <2>5. CASE Clear(p)
    BY <2>5 DEF Clear, CacheTypeOK, CacheInv, Step, Preparing
  <2>6. CASE Populate(p)
    <3>1. /\ target' = "unready" => target = "unready"
          /\ target # "absent" => target' = target
          /\ target = "absent" => target' = "ready"
          /\ target' \in {"absent", "unready", "ready"}
      BY <2>6, MarkReadyOnlyFills DEF Populate
    <3>2. QED
      BY <2>6, <3>1, LeaveKeepsLock DEF Populate, CacheTypeOK, CacheInv, Step, Preparing
  <2>7. CASE PopulateFails(p)
    BY <2>7, LeaveKeepsLock, CacheAssumption
    DEF PopulateFails, CacheTypeOK, CacheInv, Step, Preparing
  <2>8. QED
    BY <2>1, <2>2, <2>3, <2>4, <2>5, <2>6, <2>7 DEF Prepare
<1>3. TypeOK'
  BY <1>2 DEF IInv, TypeOK, attemptVars, tasks
<1>4. OwnerInv'
  BY <1>1, <1>2, AttemptAssumption DEF IInv, OwnerInv, attemptVars, tasks
<1>5. MachineInv' /\ ScoredDisks'
  BY DEF IInv, MachineInv, ScoredDisks, attemptVars, tasks
<1>6. CloneInv'
  BY <1>2 DEF IInv, CloneInv, attemptVars, tasks
<1>7. QED
  BY <1>1, <1>2, <1>3, <1>4, <1>5, <1>6 DEF IInv

-----------------------------------------------------------------------------
(* Steps of an attempt *)

\* An attempt changes the file only in FinishCache, where its machine is down.
LEMMA FinishCachePublishes ==
  ASSUME IInv, NEW a \in Attempts, FinishCache(a)
  PROVE  /\ target' \in {"absent", "unready", "ready"}
         /\ target' = "unready" => target = "unready"
         /\ target # "absent" => target' = target
         /\ deletions = 0 => target' = target
<1>1. CacheTypeOK /\ vm[a] = "off"
  BY DEF IInv, TypeOK, MachineInv, FinishCache
<1>2. CASE UNCHANGED target
  BY <1>1, <1>2 DEF CacheTypeOK
<1>3. CASE MarkReady(clone[a], FALSE)
  <2>1. pc[Owner[a]] = "prepared" /\ Owner[a] \in Processes
    BY AttemptAssumption DEF IInv, OwnerInv, FinishCache, Live, Working
  <2>2. deletions = 0 => target = "ready"
    BY <2>1 DEF IInv, CacheInv
  <2>3. QED
    BY <1>1, <1>3, <2>2, MarkReadyOnlyFills
<1>4. QED
  BY <1>1, <1>2, <1>3 DEF FinishCache

\* What a step of one attempt does not touch.
AttemptFrame(a) ==
  /\ UNCHANGED <<holder, pc, failures, deletions, tasks>>
  /\ \A b \in Attempts \ {a} :
       /\ stage'[b] = stage[b] /\ roots'[b] = roots[b] /\ clone'[b] = clone[b]
       /\ skip'[b] = skip[b] /\ vm'[b] = vm[b] /\ verdict'[b] = verdict[b]

\* What the inductive invariant says of one attempt.
AttemptInv(a) ==
  /\ stage[a] \in Live => pc[Owner[a]] = "prepared"
  /\ vm[a] # "off" =>
       \/ stage[a] \in {"agent", "running", "stopping"} /\ vm[a] \in roots[a]
       \/ stage[a] \in {"done", "recorded"} /\ verdict[a] = "error"
  /\ stage[a] \in Live => "rootfs" \in roots[a]
  /\ (stage[a] \in Live /\ a \in separate) => "verifier-rootfs" \in roots[a]
  /\ stage[a] = "respawning" => a \in separate
  /\ a \in separate => stage[a] \notin {"looking", "opening", "copying"}
  /\ stage[a] \in {"queued", "looking", "opening", "copying"} => ~skip[a]
  /\ a \in separate => ~skip[a]
  /\ stage[a] = "copying" => target # "unready"
  /\ (skip[a] /\ stage[a] \in {"spawning", "agent", "running", "stopping"})
       => clone[a] = "populated"
  /\ (a \notin separate /\ stage[a] \in {"spawning", "agent", "running", "stopping"})
       => /\ clone[a] # "none"
          /\ deletions = 0 => clone[a] = "populated"
  /\ stage[a] = "scoring" => clone[a] = "none"
  /\ (stage[a] = "done" /\ verdict[a] \in {"pass", "fail"}) =>
       /\ clone[a] = "none"
       /\ roots[a] = {} <=> (verdict[a] = "pass" /\ ~RetainPassed)

\* Every step of an attempt keeps the inductive invariant and the cache.
LEMMA AttemptStepKeeps ==
  ASSUME IInv, NEW a \in Attempts, AttemptStep(a) \/ DropTools(a) \/ RecordResult(a) \/ Cleanup(a)
  PROVE  /\ IInv'
         /\ target' = "unready" => target = "unready"
         /\ (target = "ready" /\ deletions' = 0) => target' = "ready"
<1>1. \A b \in Attempts : AttemptInv(b)
  BY DEF IInv, OwnerInv, MachineInv, CloneInv, ScoredDisks, AttemptInv
<1>2. TypeOK /\ Owner[a] \in Processes
  BY AttemptAssumption DEF IInv
<1>3. (stage[a] \in Live /\ deletions = 0) => target = "ready"
  BY <1>1, <1>2 DEF IInv, CacheInv, AttemptInv
<1>4. /\ TypeOK' /\ AttemptInv(a)' /\ AttemptFrame(a)
      /\ target' \in {"absent", "unready", "ready"}
      /\ target' = "unready" => target = "unready"
      /\ target # "absent" => target' = target
      /\ deletions = 0 => target' = target
  <2> USE <1>1, <1>2, <1>3
      DEF TypeOK, CacheTypeOK, AttemptInv, AttemptFrame, Go, Live, Setup, Working, Stage,
          cacheVars, tasks
  <2>1. CASE Begin(a)
    BY <2>1 DEF Begin
  <2>2. CASE LookForCache(a)
    BY <2>2 DEF LookForCache, FormatClone
  <2>3. CASE OpenCache(a)
    BY <2>3 DEF OpenCache, FormatClone
  <2>4. CASE CopyCache(a)
    BY <2>4 DEF CopyCache
  <2>5. CASE Spawn(a)
    BY <2>5 DEF Spawn
  <2>6. CASE SetupFails(a)
    BY <2>6 DEF SetupFails
  <2>7. CASE StageTests(a)
    BY <2>7 DEF StageTests
  <2>8. CASE CollectArtifacts(a)
    BY <2>8 DEF CollectArtifacts
  <2>9. CASE SpawnVerifier(a)
    BY <2>9 DEF SpawnVerifier
  <2>10. CASE RetryScript(a)
    BY <2>10, AttemptAssumption DEF RetryScript
  <2>11. CASE RunScript(a)
    BY <2>11 DEF RunScript
  <2>12. CASE StopVm(a)
    BY <2>12 DEF StopVm
  <2>13. CASE FinishCache(a)
    <3>1. /\ target' \in {"absent", "unready", "ready"}
          /\ target' = "unready" => target = "unready"
          /\ target # "absent" => target' = target
          /\ deletions = 0 => target' = target
      BY <2>13, FinishCachePublishes
    <3>2. /\ stage[a] = "finishing"
          /\ stage' = [stage EXCEPT ![a] = "scoring"]
          /\ clone' = [clone EXCEPT ![a] = "none"]
          /\ UNCHANGED <<holder, pc, failures, deletions, tasks, roots, skip, vm, retries, verdict>>
      BY <2>13 DEF FinishCache
    <3>3. QED
      BY <3>1, <3>2
  <2>14. CASE \E reward \in {"pass", "fail"} : Score(a, reward)
    BY <2>14 DEF Score
  <2>15. CASE AgentFails(a) \/ VerifierFails(a)
    BY <2>15 DEF AgentFails, VerifierFails, RemoveAttemptCache
  <2>16. CASE RecordResult(a)
    BY <2>16 DEF RecordResult
  <2>17. CASE Cleanup(a)
    BY <2>17 DEF Cleanup
  <2>18. CASE DropTools(a)
    BY <2>18 DEF DropTools
  <2>19. QED
    BY <2>1, <2>2, <2>3, <2>4, <2>5, <2>6, <2>7, <2>8, <2>9, <2>10, <2>11, <2>12, <2>13, <2>14, <2>15, <2>16, <2>17, <2>18 DEF AttemptStep
<1>5. CacheInv'
  BY <1>2, <1>4 DEF IInv, CacheInv, AttemptFrame, TypeOK, CacheTypeOK
<1>6. \A b \in Attempts \ {a} : AttemptInv(b)'
  BY <1>1, <1>4 DEF AttemptInv, AttemptFrame, tasks
<1>7. OwnerInv' /\ MachineInv' /\ CloneInv' /\ ScoredDisks'
  BY <1>4, <1>6 DEF OwnerInv, MachineInv, CloneInv, ScoredDisks, AttemptInv
<1>8. QED
  BY <1>4, <1>5, <1>7 DEF IInv

-----------------------------------------------------------------------------
(* A killed process, a deleted file, and the invariant of the specification *)

\* A killed process takes the lock, its machines and its attempts with it.
LEMMA CrashKeeps ==
  ASSUME IInv, NEW p \in Processes, CrashProcess(p)
  PROVE  IInv' /\ target' = target /\ deletions' = deletions
<1>1. /\ CacheTypeOK' /\ CacheInv'
      /\ \A q \in Processes \ {p} : pc'[q] = pc[q]
      /\ UNCHANGED <<target, deletions>>
  BY LeaveKeepsLock, CacheAssumption
  DEF IInv, TypeOK, CrashProcess, Crash, CacheTypeOK, CacheInv, Critical, Step, Preparing
<1>2. TypeOK'
  BY <1>1 DEF IInv, TypeOK, CrashProcess, tasks, Stage, Live
<1>3. OwnerInv'
  <2>1. SUFFICES ASSUME NEW a \in Attempts, stage'[a] \in Live
                 PROVE  pc'[Owner[a]] = "prepared"
    BY DEF OwnerInv
  <2>2. Owner[a] # p /\ stage[a] \in Live
    BY <2>1 DEF IInv, TypeOK, CrashProcess, Live, Setup, Working
  <2>3. QED
    BY <1>1, <2>2, AttemptAssumption DEF IInv, OwnerInv
<1>4. MachineInv'
  BY DEF IInv, TypeOK, MachineInv, CrashProcess, tasks, Live, Setup, Working, Stage
<1>5. CloneInv' /\ ScoredDisks'
  BY <1>1 DEF IInv, TypeOK, CloneInv, ScoredDisks, CrashProcess, tasks, Live, Setup, Working
<1>6. QED
  BY <1>1, <1>2, <1>3, <1>4, <1>5 DEF IInv

\* A command that is repeated starts over, without its lock.
LEMMA RestartKeeps ==
  ASSUME IInv, NEW p \in Processes, Restart(p), UNCHANGED attemptVars
  PROVE  IInv' /\ target' = target
<1>1. /\ CacheTypeOK' /\ CacheInv'
      /\ \A q \in Processes \ {p} : pc'[q] = pc[q]
      /\ pc[p] # "prepared"
      /\ UNCHANGED <<target, deletions>>
  BY DEF IInv, TypeOK, Restart, CacheTypeOK, CacheInv, Critical, Step, Preparing
<1>2. TypeOK'
  BY <1>1 DEF IInv, TypeOK, attemptVars, tasks
<1>3. OwnerInv'
  BY <1>1, AttemptAssumption DEF IInv, OwnerInv, attemptVars
<1>4. MachineInv' /\ CloneInv' /\ ScoredDisks'
  BY <1>1 DEF IInv, MachineInv, CloneInv, ScoredDisks, attemptVars, tasks
<1>5. QED
  BY <1>1, <1>2, <1>3, <1>4 DEF IInv

\* A deleted file is the end of what the invariant says of a first deletion.
LEMMA DeleteKeeps ==
  ASSUME IInv, DeleteCache, UNCHANGED attemptVars
  PROVE  IInv' /\ target' = "absent" /\ deletions' # 0
<1>1. /\ CacheTypeOK' /\ target' = "absent" /\ deletions' # 0
      /\ UNCHANGED <<holder, pc, failures>>
  BY CacheAssumption DEF IInv, TypeOK, DeleteCache, CacheTypeOK
<1>2. CacheInv'
  BY <1>1 DEF IInv, CacheInv
<1>3. TypeOK' /\ OwnerInv' /\ MachineInv' /\ CloneInv' /\ ScoredDisks'
  BY <1>1 DEF IInv, TypeOK, OwnerInv, MachineInv, CloneInv, ScoredDisks, attemptVars, tasks
<1>4. QED
  BY <1>1, <1>2, <1>3 DEF IInv

\* Every step keeps the inductive invariant, and what no step may do to the file.
LEMMA NextKeeps ==
  ASSUME IInv, [Next]_vars
  PROVE  /\ IInv'
         /\ target' = "unready" => target = "unready"
         /\ (target = "ready" /\ deletions' = 0) => target' = "ready"
<1>1. CASE \E p \in Processes : Prepare(p) /\ UNCHANGED attemptVars
  BY <1>1, PrepareKeeps
<1>2. CASE \E p \in Processes : Restart(p) /\ UNCHANGED attemptVars
  BY <1>2, RestartKeeps
<1>3. CASE \E p \in Processes : CrashProcess(p)
  BY <1>3, CrashKeeps
<1>4. CASE DeleteCache /\ UNCHANGED attemptVars
  BY <1>4, DeleteKeeps
<1>5. CASE \E a \in Attempts : AttemptStep(a) \/ DropTools(a) \/ RecordResult(a) \/ Cleanup(a)
  BY <1>5, AttemptStepKeeps
<1>6. CASE UNCHANGED vars
  BY <1>6 DEF IInv, TypeOK, CacheTypeOK, CacheInv, OwnerInv, MachineInv, CloneInv,
              ScoredDisks, vars, cacheVars, attemptVars, tasks
<1>7. QED
  BY <1>1, <1>2, <1>3, <1>4, <1>5, <1>6 DEF Next

\* The inductive invariant holds in every reachable state.
LEMMA Invariant == Spec => []IInv
<1>1. Init => IInv
  BY InitIInv
<1>2. IInv /\ [Next]_vars => IInv'
  BY NextKeeps
<1>3. QED
  BY <1>1, <1>2, PTL DEF Spec

-----------------------------------------------------------------------------
(* The theorems *)

\* Every variable keeps its type, and retries of a verifier (eval.rs:2902) their
\* limit.
THEOREM Typing == Spec => []TypeOK
<1>1. IInv => TypeOK
  BY DEF IInv
<1>2. QED
  BY <1>1, Invariant, PTL

\* No interleaving of prepare_once, of attempts that publish without its lock
\* and of crashes makes cache.ext4 an unpopulated disk.
THEOREM OnlyPopulatedPublished == Spec => PublishedIsPopulated
<1>1. IInv /\ [Next]_vars => [target' = "unready" => target = "unready"]_vars
  BY NextKeeps
<1>2. QED
  BY <1>1, Invariant, PTL DEF Spec, PublishedIsPopulated

\* As long as nobody deletes it, a ready cache.ext4 stays: the removal in
\* prepare_once never meets a file that has become ready.
THEOREM ReadyStays == Spec => ReadyIsPermanent
<1>1. IInv /\ [Next]_vars
        => [(target = "ready" /\ deletions' = 0) => target' = "ready"]_vars
  BY NextKeeps
<1>2. QED
  BY <1>1, Invariant, PTL DEF Spec, ReadyIsPermanent

\* As long as nobody deletes the cache, the guest of every attempt works on a
\* populated clone of it.
THEOREM WarmStart == Spec => []AttemptsStartWarm
<1>1. IInv => AttemptsStartWarm
  <2> SUFFICES ASSUME IInv, NEW a \in Attempts \ separate,
                      stage[a] \in Working, vm[a] = "rootfs", deletions = 0
               PROVE  clone[a] = "populated"
    BY DEF AttemptsStartWarm
  <2>1. stage[a] \in {"agent", "running", "stopping"}
    BY DEF IInv, MachineInv, Working
  <2>2. QED
    BY <2>1 DEF IInv, CloneInv
<1>2. QED
  BY <1>1, Invariant, PTL

\* Whoever deletes the cache and whenever: a script runs without its setup only
\* on a disk that has it.
THEOREM SkipIsSound == Spec => []SkippedSetupIsPopulated
<1>1. IInv => SkippedSetupIsPopulated
  <2> SUFFICES ASSUME IInv, NEW a \in Attempts, skip[a], stage[a] \in Working, vm[a] # "off"
               PROVE  clone[a] = "populated"
    BY DEF SkippedSetupIsPopulated
  <2>1. stage[a] \in {"agent", "running", "stopping"}
    BY DEF IInv, MachineInv, Working
  <2>2. QED
    BY <2>1 DEF IInv, CloneInv
<1>2. QED
  BY <1>1, Invariant, PTL

\* From its start to its shutdown a machine has all of its disks, whoever is
\* cleaned up or killed beside it; a machine that lost one is that of an attempt
\* that has ended in an error, and never of one that works or was scored.
THEOREM DisksStay == Spec => []DisksOutliveVms
<1>1. IInv => DisksOutliveVms
  <2> SUFFICES ASSUME IInv, NEW a \in Attempts, vm[a] # "off",
                      ~(verdict[a] = "error" /\ stage[a] \in {"done", "recorded"})
               PROVE  /\ stage[a] \in Working
                      /\ vm[a] \in roots[a]
                      /\ a \notin separate => clone[a] # "none"
    BY DEF DisksOutliveVms
  <2>1. stage[a] \in {"agent", "running", "stopping"} /\ vm[a] \in roots[a]
    BY DEF IInv, MachineInv
  <2>2. QED
    BY <2>1 DEF IInv, CloneInv, Working
<1>2. QED
  BY <1>1, Invariant, PTL

\* A scored attempt has given its clone back, and has its root disks exactly if
\* it failed or all are to be retained.
THEOREM ScoredAttemptsTidy == Spec => []ScoredDisks
<1>1. IInv => ScoredDisks
  BY DEF IInv
<1>2. QED
  BY <1>1, Invariant, PTL
=============================================================================
