------------------------------ MODULE VmAttempt ------------------------------
(***************************************************************************)
(* The life of an attempt in a virtual machine (bin/nanoeval/src/eval.rs): *)
(* its disks are made, the agent works, the verifier runs in the same      *)
(* guest or, for tasks with an environment of their own for it, in a       *)
(* second one, the verifier cache is given back and the disks of a passed  *)
(* attempt are removed.  Attempts of several commands share the cache of   *)
(* module VerifierCache; cleanup.rs removes disks of recorded trials.      *)
(***************************************************************************)
EXTENDS VerifierCache

CONSTANTS
  Attempts,      \* attempts in virtual machines
  Owner,         \* the command each belongs to
  RetainPassed,  \* --vm-retention all
  MaxRetries     \* VERIFIER_NETWORK_RETRIES

ASSUME AttemptAssumption ==
  /\ Owner \in [Attempts -> Processes]
  /\ RetainPassed \in BOOLEAN
  /\ MaxRetries \in Nat

VARIABLES
  skip_setup,  \* VerifierCache::skip_setup: the script's setup can be omitted
  separate,    \* attempts whose task has a verifier environment
  stage,       \* where the attempt stands
  roots,       \* its root disks: rootfs.ext4, verifier-rootfs.ext4
  clone,       \* its cache.ext4: none, empty or populated
  skip,        \* AttemptVerifierCache::skip_setup
  vm,          \* the root disk its running machine is on, or off
  retries,     \* verifier runs repeated after a network failure
  verdict

tasks == <<skip_setup, separate>>
attemptVars == <<tasks, stage, roots, clone, skip, vm, retries, verdict>>
vars == <<cacheVars, attemptVars>>

(***************************************************************************)
(* queued      not started                                                 *)
(* looking     materialize: is_ready, before it looks for the file         *)
(* opening     is_ready has seen a file and opens it                       *)
(* copying     it was ready and is copied                                  *)
(* spawning    the disks are there, the machine is started                 *)
(* agent       the agent works                                             *)
(* respawning  the agent's machine is down, the verifier's is started      *)
(* running     the verifier script runs                                    *)
(* stopping    the script has ended, its reward is read, shutdown is next  *)
(* finishing   the machine is down, finish_verifier_cache is next          *)
(* scoring     the reward is parsed                                        *)
(* done        run_task has returned                                       *)
(* recorded    the recorder has written the trial's result.json            *)
(* lost        its process was killed before the result was written        *)
(***************************************************************************)
Setup == {"looking", "opening", "copying", "spawning"}
Working == {"agent", "respawning", "running", "stopping", "finishing", "scoring"}
Live == Setup \union Working
Stage == Live \union {"queued", "done", "recorded", "lost"}

Init ==
  /\ CacheInit
  /\ skip_setup \in BOOLEAN
  /\ separate \in SUBSET Attempts
  /\ stage = [a \in Attempts |-> "queued"]
  /\ roots = [a \in Attempts |-> {}]
  /\ clone = [a \in Attempts |-> "none"]
  /\ skip = [a \in Attempts |-> FALSE]
  /\ vm = [a \in Attempts |-> "off"]
  /\ retries = [a \in Attempts |-> 0]
  /\ verdict = [a \in Attempts |-> "none"]

Go(a, next) == stage' = [stage EXCEPT ![a] = next]

-----------------------------------------------------------------------------
(* vm_attempt_inner *)

\* The root disks, and the way to the clone for tasks that verify in the
\* agent's guest.
Begin(a) ==
  /\ stage[a] = "queued"
  /\ pc[Owner[a]] = "prepared"
  /\ roots' = [roots EXCEPT ![a] = IF a \in separate THEN {"rootfs", "verifier-rootfs"}
                                                     ELSE {"rootfs"}]
  /\ Go(a, IF a \in separate THEN "spawning" ELSE "looking")
  /\ UNCHANGED <<cacheVars, tasks, clone, skip, vm, retries, verdict>>

\* materialize when is_ready says no: an empty clone is formatted.
FormatClone(a) ==
  /\ clone' = [clone EXCEPT ![a] = "empty"]
  /\ Go(a, "spawning")

LookForCache(a) ==
  /\ stage[a] = "looking"
  /\ IF target = "absent" THEN FormatClone(a) ELSE Go(a, "opening") /\ UNCHANGED clone
  /\ UNCHANGED <<cacheVars, tasks, roots, skip, vm, retries, verdict>>

\* A file that has gone since is an error: see SetupFails.
OpenCache(a) ==
  /\ stage[a] = "opening"
  /\ target # "absent"
  /\ IF target = "unready" THEN FormatClone(a) ELSE Go(a, "copying") /\ UNCHANGED clone
  /\ UNCHANGED <<cacheVars, tasks, roots, skip, vm, retries, verdict>>

\* Fault: a file that has gone is made up for by an empty one.
CopyOrFormat(a) ==
  /\ stage[a] = "copying"
  /\ clone' = [clone EXCEPT ![a] = IF target = "ready" THEN "populated" ELSE "empty"]
  /\ skip' = [skip EXCEPT ![a] = skip_setup]
  /\ Go(a, "spawning")
  /\ UNCHANGED <<cacheVars, tasks, roots, vm, retries, verdict>>

CopyCache(a) ==
  /\ stage[a] = "copying"
  /\ target # "absent"
  /\ clone' = [clone EXCEPT ![a] = IF target = "ready" THEN "populated" ELSE "empty"]
  /\ skip' = [skip EXCEPT ![a] = skip_setup]
  /\ Go(a, "spawning")
  /\ UNCHANGED <<cacheVars, tasks, roots, vm, retries, verdict>>

Spawn(a) ==
  /\ stage[a] = "spawning"
  /\ vm' = [vm EXCEPT ![a] = "rootfs"]
  /\ Go(a, "agent")
  /\ UNCHANGED <<cacheVars, tasks, roots, clone, skip, retries, verdict>>

\* An error before there is a VmVerifier: nothing removes the clone.
SetupFails(a) ==
  /\ stage[a] \in Setup
  /\ verdict' = [verdict EXCEPT ![a] = "error"]
  /\ Go(a, "done")
  /\ UNCHANGED <<cacheVars, tasks, roots, clone, skip, vm, retries>>

-----------------------------------------------------------------------------
(* execute_agent and VmVerifier::verify_inner *)

\* The agent's turn is over: tests, cache mount and cached script go into its
\* guest.
StageTests(a) ==
  /\ stage[a] = "agent"
  /\ a \notin separate
  /\ Go(a, "running")
  /\ UNCHANGED <<cacheVars, tasks, roots, clone, skip, vm, retries, verdict>>

\* Or its artifacts are collected and the guest is shut down.
CollectArtifacts(a) ==
  /\ stage[a] = "agent"
  /\ a \in separate
  /\ vm' = [vm EXCEPT ![a] = "off"]
  /\ Go(a, "respawning")
  /\ UNCHANGED <<cacheVars, tasks, roots, clone, skip, retries, verdict>>

SpawnVerifier(a) ==
  /\ stage[a] = "respawning"
  /\ vm' = [vm EXCEPT ![a] = "verifier-rootfs"]
  /\ Go(a, "running")
  /\ UNCHANGED <<cacheVars, tasks, roots, clone, skip, retries, verdict>>

\* verifier_bootstrap_network_failed, and there are retries left.
RetryScript(a) ==
  /\ stage[a] = "running"
  /\ retries[a] < MaxRetries
  /\ retries' = [retries EXCEPT ![a] = @ + 1]
  /\ UNCHANGED <<cacheVars, tasks, stage, roots, clone, skip, vm, verdict>>

\* The script's last run, which may have installed what the cache lacks.
RunScript(a) ==
  /\ stage[a] = "running"
  /\ \/ UNCHANGED clone
     \/ clone[a] = "empty" /\ clone' = [clone EXCEPT ![a] = "populated"]
  /\ Go(a, "stopping")
  /\ UNCHANGED <<cacheVars, tasks, roots, skip, vm, retries, verdict>>

StopVm(a) ==
  /\ stage[a] = "stopping"
  /\ vm' = [vm EXCEPT ![a] = "off"]
  /\ Go(a, "finishing")
  /\ UNCHANGED <<cacheVars, tasks, roots, clone, skip, retries, verdict>>

\* Fault: a clone the attempt did not fill is forgotten.
FinishOwnCache(a) ==
  /\ stage[a] = "finishing"
  /\ IF clone[a] # "none" /\ ~skip[a]
     THEN MarkReady(clone[a], vm[a] # "off") /\ clone' = [clone EXCEPT ![a] = "none"]
     ELSE UNCHANGED <<target, clone>>
  /\ Go(a, "scoring")
  /\ UNCHANGED <<holder, pc, failures, deletions, tasks, roots, skip, vm, retries, verdict>>

\* finish_verifier_cache: a clone that did the setup is offered to the cache,
\* without its lock; the clone is removed.
FinishCache(a) ==
  /\ stage[a] = "finishing"
  /\ IF clone[a] # "none" /\ ~skip[a] THEN MarkReady(clone[a], vm[a] # "off")
                                      ELSE UNCHANGED target
  /\ clone' = [clone EXCEPT ![a] = "none"]
  /\ Go(a, "scoring")
  /\ UNCHANGED <<holder, pc, failures, deletions, tasks, roots, skip, vm, retries, verdict>>

\* The reward, read from the guest while it ran or 0 after a timeout, is
\* parsed; remove_passed_root_disks; verify_inner returns.
Score(a, reward) ==
  /\ stage[a] = "scoring"
  /\ verdict' = [verdict EXCEPT ![a] = reward]
  /\ roots' = [roots EXCEPT ![a] = IF reward = "pass" /\ ~RetainPassed THEN {} ELSE @]
  /\ Go(a, "done")
  /\ UNCHANGED <<cacheVars, tasks, clone, skip, vm, retries>>

\* remove_attempt_cache, which VmVerifier::drop calls before its fields go.
RemoveAttemptCache(a) == clone' = [clone EXCEPT ![a] = "none"]

\* The agent fails or times out: the verifier is dropped.  Its clone goes, while
\* the session it held and the agent's tools still keep the machine.
AgentFails(a) ==
  /\ stage[a] = "agent"
  /\ verdict' = [verdict EXCEPT ![a] = "error"]
  /\ RemoveAttemptCache(a)
  /\ Go(a, "done")
  /\ UNCHANGED <<cacheVars, tasks, roots, skip, vm, retries>>

\* Every `?` of verify_inner: its session goes first, then the clone.  Nothing
\* has waited for the agent, so its tools may still hold the guest they share.
VerifierFails(a) ==
  /\ stage[a] \in Working \ {"agent"}
  /\ verdict' = [verdict EXCEPT ![a] = "error"]
  /\ \/ vm' = [vm EXCEPT ![a] = "off"]
     \/ a \notin separate /\ UNCHANGED vm
  /\ RemoveAttemptCache(a)
  /\ Go(a, "done")
  /\ UNCHANGED <<cacheVars, tasks, roots, skip, retries>>

\* The agent's driver ends and drops the tools, the last that hold the session:
\* the machine's process is killed.  No code waits for that.
DropTools(a) ==
  /\ stage[a] \notin Live
  /\ vm[a] # "off"
  /\ vm' = [vm EXCEPT ![a] = "off"]
  /\ UNCHANGED <<cacheVars, tasks, stage, roots, clone, skip, retries, verdict>>

-----------------------------------------------------------------------------
(* The recorder, cleanup.rs, and a process that is killed *)

RecordResult(a) ==
  /\ stage[a] = "done"
  /\ pc[Owner[a]] = "prepared"
  /\ Go(a, "recorded")
  /\ UNCHANGED <<cacheVars, tasks, roots, clone, skip, vm, retries, verdict>>

\* Fault: trials without a result are cleaned up too.
CleanupAll(a) ==
  /\ roots[a] # {} \/ clone[a] # "none"
  /\ roots' = [roots EXCEPT ![a] = {}]
  /\ clone' = [clone EXCEPT ![a] = "none"]
  /\ UNCHANGED <<cacheVars, tasks, stage, skip, vm, retries, verdict>>

\* nanoeval cleanup on the job directory.
Cleanup(a) ==
  /\ stage[a] = "recorded"
  /\ roots[a] # {} \/ clone[a] # "none"
  /\ roots' = [roots EXCEPT ![a] = {}]
  /\ clone' = [clone EXCEPT ![a] = "none"]
  /\ UNCHANGED <<cacheVars, tasks, stage, skip, vm, retries, verdict>>

\* The machines of the process lose their console and end; outcomes not yet
\* recorded go with its memory.
CrashProcess(p) ==
  LET Lost == {a \in Attempts : Owner[a] = p /\ stage[a] \in Live \union {"done"}}
  IN  /\ Crash(p)
      /\ stage' = [a \in Attempts |-> IF a \in Lost THEN "lost" ELSE stage[a]]
      /\ vm' = [a \in Attempts |-> IF Owner[a] = p THEN "off" ELSE vm[a]]
      /\ UNCHANGED <<tasks, roots, clone, skip, retries, verdict>>

-----------------------------------------------------------------------------
AttemptStep(a) ==
  \/ Begin(a)
  \/ LookForCache(a)
  \/ OpenCache(a)
  \/ CopyCache(a)
  \/ Spawn(a)
  \/ SetupFails(a)
  \/ StageTests(a)
  \/ CollectArtifacts(a)
  \/ SpawnVerifier(a)
  \/ RetryScript(a)
  \/ RunScript(a)
  \/ StopVm(a)
  \/ FinishCache(a)
  \/ \E reward \in {"pass", "fail"} : Score(a, reward)
  \/ AgentFails(a)
  \/ VerifierFails(a)

Next ==
  \/ \E p \in Processes :
       \/ Prepare(p) /\ UNCHANGED attemptVars
       \/ Restart(p) /\ UNCHANGED attemptVars
       \/ CrashProcess(p)
  \/ DeleteCache /\ UNCHANGED attemptVars
  \/ \E a \in Attempts : AttemptStep(a) \/ DropTools(a) \/ RecordResult(a) \/ Cleanup(a)

Spec == Init /\ [][Next]_vars

\* Guest commands run under timeouts, so a preparation and an attempt that
\* have started proceed; so does a process that waits for the lock.
FairSpec ==
  /\ Spec
  /\ \A p \in Processes : WF_vars(Prepare(p) /\ UNCHANGED attemptVars)
  /\ \A a \in Attempts : WF_vars(AttemptStep(a))

-----------------------------------------------------------------------------
TypeOK ==
  /\ CacheTypeOK
  /\ skip_setup \in BOOLEAN
  /\ separate \subseteq Attempts
  /\ stage \in [Attempts -> Stage]
  /\ roots \in [Attempts -> SUBSET {"rootfs", "verifier-rootfs"}]
  /\ clone \in [Attempts -> {"none", "empty", "populated"}]
  /\ skip \in [Attempts -> BOOLEAN]
  /\ vm \in [Attempts -> {"off", "rootfs", "verifier-rootfs"}]
  /\ retries \in [Attempts -> 0 .. MaxRetries]
  /\ verdict \in [Attempts -> {"none", "pass", "fail", "error"}]

\* README.md:914: the cache is published "only after the pinned uv installation
\* exists".  No interleaving of preparations and of attempts that publish
\* without the lock leaves a cache.ext4 that is not populated.
PublishedIsPopulated == [][target' = "unready" => target = "unready"]_vars

\* A ready cache stays: a preparation that saw none never removes the one that
\* another command has published since.
ReadyIsPermanent ==
  [][(target = "ready" /\ deletions' = 0) => target' = "ready"]_vars

\* "verifier cache prepared before agent execution" (eval.rs:2454): the guest
\* of an attempt works on a populated clone, whichever command prepared it.
AttemptsStartWarm ==
  \A a \in Attempts \ separate :
    (stage[a] \in Working /\ vm[a] = "rootfs" /\ deletions = 0) => clone[a] = "populated"

\* A verifier script that omits its setup runs on a disk that has it, although
\* the cache is looked at first and copied later.
SkippedSetupIsPopulated ==
  \A a \in Attempts : (skip[a] /\ stage[a] \in Working /\ vm[a] # "off") => clone[a] = "populated"

\* A machine has all of its disks from its start to its shutdown: neither the
\* verdict of its attempt nor a clean-up (README.md:451, "without touching
\* active VMs") removes one.  Only where the attempt has ended in an error may
\* the machine be met without them: dropping VmVerifier (eval.rs:3018) removes
\* the clone first, and what keeps the machine is dropped after it.
DisksOutliveVms ==
  \A a \in Attempts : vm[a] # "off" =>
    \/ /\ stage[a] \in Working
       /\ vm[a] \in roots[a]
       /\ a \notin separate => clone[a] # "none"
    \/ verdict[a] = "error" /\ stage[a] \in {"done", "recorded"}

\* README.md:123, :449: a scored attempt leaves no cache clone, and leaves its
\* root disks exactly if it failed or all are to be retained.
ScoredDisks ==
  \A a \in Attempts : (stage[a] = "done" /\ verdict[a] \in {"pass", "fail"}) =>
    /\ clone[a] = "none"
    /\ roots[a] = {} <=> (verdict[a] = "pass" /\ ~RetainPassed)

\* Preparations and attempts end, though the command that holds the lock may
\* fail or be killed at any point.
RunsEnd ==
  /\ \A p \in Processes : pc[p] \in Preparing ~> pc[p] \notin Preparing
  /\ \A a \in Attempts : stage[a] \in Live ~> stage[a] \notin Live
=============================================================================
