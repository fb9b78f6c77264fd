---------------------------- MODULE VerifierCache ----------------------------
(***************************************************************************)
(* One entry of the verifier dependency cache of bin/nanoeval/src/eval.rs: *)
(* the file cache.ext4 of one key, which every command that needs it       *)
(* prepares before its attempts (prepare_verifier_caches) and which other  *)
(* commands prepare and use at the same time.                              *)
(*                                                                         *)
(* The preparation is serialised by an advisory lock; looking at the file  *)
(* and linking a new one to its name are not.                              *)
(***************************************************************************)
EXTENDS Integers, FiniteSets

CONSTANTS
  Processes,     \* commands that need this cache
  MaxFailures,   \* bound: failed preparations and crashes
  MaxDeletions,  \* bound: times the user deletes the file
  None

ASSUME CacheAssumption ==
  /\ MaxFailures \in Nat /\ MaxDeletions \in Nat
  /\ None \notin Processes

VARIABLES
  target,     \* cache.ext4: absent, ready (uv is installed on it) or unready
  holder,     \* who holds .prepare.lock, or None
  pc,         \* where prepare_once stands in each process
  failures,
  deletions

cacheVars == <<target, holder, pc, failures, deletions>>

(***************************************************************************)
(* start       is_ready is next, before the lock                           *)
(* opening     is_ready has seen a file and opens it                       *)
(* waiting     blocked in lock_exclusive                                   *)
(* locked      is_ready once more, under the lock                          *)
(* clearing    it was not ready, what is there must go                     *)
(* populating  the disposable virtual machine installs the dependencies    *)
(* prepared    prepare_once has returned, attempts may start               *)
(* failed      it returned an error and the command has ended              *)
(* stopped     the process has been killed                                 *)
(***************************************************************************)
Preparing == {"start", "opening", "waiting", "locked", "clearing", "populating"}
Step == Preparing \union {"prepared", "failed", "stopped"}

\* An unready file can only be a remnant (a host that went down before the
\* file was on disk): no step below makes one.
CacheInit ==
  /\ target \in {"absent", "unready", "ready"}
  /\ holder = None
  /\ pc = [p \in Processes |-> "start"]
  /\ failures = 0
  /\ deletions = 0

-----------------------------------------------------------------------------
\* Fault: the lock is a file that a failed preparation leaves behind.
LeaveLocked(p, next) ==
  /\ pc' = [pc EXCEPT ![p] = next]
  /\ holder' = IF holder = p /\ next = "prepared" THEN None ELSE holder

\* prepare_once returns or the process dies; its lock goes with it.
Leave(p, next) ==
  /\ pc' = [pc EXCEPT ![p] = next]
  /\ holder' = IF holder = p THEN None ELSE holder

\* Fault: whatever is on the disk is published.
MarkReadyUnchecked(content, running) ==
  target' = IF target # "absent" THEN target
            ELSE IF content = "populated" /\ ~running THEN "ready" ELSE "unready"

\* mark_ready: a populated disk is copied and the copy linked to the final
\* name unless that is taken.  A disk copied under a running machine is torn.
MarkReady(content, running) ==
  target' = IF content # "populated" \/ target # "absent" THEN target
            ELSE IF running THEN "unready" ELSE "ready"

-----------------------------------------------------------------------------
(* prepare_once *)

\* is_file of the first is_ready.  VerifierCache::prepare has looked in the
\* same way before, for a log field.
Look(p) ==
  /\ pc[p] = "start"
  /\ pc' = [pc EXCEPT ![p] = IF target = "absent" THEN "waiting" ELSE "opening"]
  /\ UNCHANGED <<target, holder, failures, deletions>>

\* Fault: any file will do.
OpenTrusting(p) ==
  /\ pc[p] = "opening"
  /\ pc' = [pc EXCEPT ![p] = IF target = "absent" THEN "failed" ELSE "prepared"]
  /\ UNCHANGED <<target, holder, failures, deletions>>

\* verifier_cache_populated; the file may be gone by now, which is an error.
Open(p) ==
  /\ pc[p] = "opening"
  /\ pc' = [pc EXCEPT ![p] = CASE target = "absent" -> "failed"
                                [] target = "unready" -> "waiting"
                                [] target = "ready" -> "prepared"]
  /\ UNCHANGED <<target, holder, failures, deletions>>

Lock(p) ==
  /\ pc[p] = "waiting"
  /\ holder = None
  /\ holder' = p
  /\ pc' = [pc EXCEPT ![p] = "locked"]
  /\ UNCHANGED <<target, failures, deletions>>

\* "preparation reused another process's result", or there is work to do.
LookAgain(p) ==
  /\ pc[p] = "locked"
  /\ IF target = "ready"
     THEN Leave(p, "prepared")
     ELSE pc' = [pc EXCEPT ![p] = "clearing"] /\ UNCHANGED holder
  /\ UNCHANGED <<target, failures, deletions>>

\* The file is removed, whatever it has become since it was looked at.
Clear(p) ==
  /\ pc[p] = "clearing"
  /\ target' = "absent"
  /\ pc' = [pc EXCEPT ![p] = "populating"]
  /\ UNCHANGED <<holder, failures, deletions>>

\* populate: the machine has been shut down and its disk is checked.
Populate(p) ==
  /\ pc[p] = "populating"
  /\ MarkReady("populated", FALSE)
  /\ Leave(p, "prepared")
  /\ UNCHANGED <<failures, deletions>>

\* Every other end of populate: an error of the machine, a setup that failed
\* after its retries, or a disk on which uv is missing.
PopulateFails(p) ==
  /\ pc[p] = "populating"
  /\ failures < MaxFailures
  /\ failures' = failures + 1
  /\ Leave(p, "failed")
  /\ UNCHANGED <<target, deletions>>

Crash(p) ==
  /\ pc[p] \notin {"failed", "stopped"}
  /\ failures < MaxFailures
  /\ failures' = failures + 1
  /\ Leave(p, "stopped")
  /\ UNCHANGED <<target, deletions>>

\* The user repeats the command.
Restart(p) ==
  /\ pc[p] \in {"failed", "stopped"}
  /\ pc' = [pc EXCEPT ![p] = "start"]
  /\ UNCHANGED <<target, holder, failures, deletions>>

\* The user deletes the cached file; nothing in the program does.
DeleteCache ==
  /\ target # "absent"
  /\ deletions < MaxDeletions
  /\ deletions' = deletions + 1
  /\ target' = "absent"
  /\ UNCHANGED <<holder, pc, failures>>

Prepare(p) ==
  \/ Look(p)
  \/ Open(p)
  \/ Lock(p)
  \/ LookAgain(p)
  \/ Clear(p)
  \/ Populate(p)
  \/ PopulateFails(p)

-----------------------------------------------------------------------------
CacheTypeOK ==
  /\ target \in {"absent", "unready", "ready"}
  /\ holder \in Processes \union {None}
  /\ pc \in [Processes -> Step]
  /\ failures \in 0 .. MaxFailures
  /\ deletions \in 0 .. MaxDeletions
=============================================================================
