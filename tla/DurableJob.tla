----------------------------- MODULE DurableJob -----------------------------
(***************************************************************************)
(* The durable life of an evaluation job: several `nanoeval run` processes *)
(* over one output directory, each of which reopens or creates a job       *)
(* (crates/nanoeval/src/job.rs), binds it to its sweep, runs the attempts  *)
(* that have no durable result and lets the Harbor recorder commit them    *)
(* (crates/nanoeval-harbor/src/lib.rs, bin/nanoeval/src/eval.rs).          *)
(*                                                                         *)
(* A process may stop for good between any two file commits: Ctrl+C, a     *)
(* kill, or an I/O error that ends the command.  Every commit is a rename, *)
(* so a file is there in full or not at all, and the advisory lock goes    *)
(* with the process that holds it.                                         *)
(***************************************************************************)
EXTENDS Integers, FiniteSets, SequencesExt

CONSTANTS
  Processes,   \* invocations of the command that may overlap
  Attempts,    \* task x agent x trial coordinates
  Wanted,      \* the attempts of the sweep each process was asked for
  Matches,     \* Matches[t]: the attempts whose directories t's prefix matches
  MaxJobs,     \* bound: job directories ever created
  MaxCrashes,  \* bound: processes that stop early
  None

ASSUME JobAssumption ==
  /\ IsFiniteSet(Attempts)
  /\ Wanted \in [Processes -> (SUBSET Attempts) \ {{}}]
  /\ Matches \in [Attempts -> SUBSET Attempts]
  /\ \A t \in Attempts : t \in Matches[t]
  /\ MaxJobs \in Nat /\ MaxCrashes \in Nat
  /\ None \notin Processes

Jobs == 1 .. MaxJobs

VARIABLES
  \* one entry per job directory
  directories,  \* how many there are
  identified,   \* those with a job.json, in the order of its started_at
  lease,        \* who holds .nanoeval.lock, or None
  run,          \* the sweep in run.json; {} when there is no such file
  results,      \* results[j][t]: trial directories of t with a result.json
  lock_json,    \* trials listed in the job's lock.json
  job_result,   \* the job's result.json; NoResult when there is no such file
  last_run,     \* the job named by .nanoeval/last-run.json, or None
  \* one entry per process
  pc,
  job,          \* the job it works on
  expected,     \* remaining_attempts, the argument of finish_all
  todo,         \* inputs of the sweep whose terminal event is not recorded
  recorded,     \* terminal events recorded by this process
  baseline,     \* HarborArtifacts::baseline and the lock.json read by attach
  crashes

disk == <<directories, identified, run, results, lock_json, job_result, last_run>>
memory == <<job, expected, todo, recorded, baseline>>
vars == <<disk, lease, pc, memory, crashes>>

(***************************************************************************)
(* idle       between two invocations                                      *)
(* selected   resume_or_create has chosen a directory, lease not yet taken *)
(* create     no candidate, or --new                                       *)
(* created    new directory, leased, no job.json yet                       *)
(* unbound    job.json is there or was read, bind_run is next              *)
(* open       build has returned, remaining attempts not yet counted       *)
(* attached   HarborArtifacts::attach has returned                         *)
(* sweeping   attempts are running, the recorder waits for an event        *)
(* committed  a trial's result.json is renamed, the job's lock.json is not *)
(* locked     lock.json is renamed, the job's result.json is not           *)
(* finished   finish_all has returned, last-run.json not yet written       *)
(***************************************************************************)
Step == {"idle", "selected", "create", "created", "unbound", "open", "attached",
         "sweeping", "committed", "locked", "finished"}

NoResult == [total |-> 0, completed |-> 0]
NoBaseline == [total |-> 0, completed |-> 0, locked |-> 0]

\* The trial directories of the job that hold a result.json, and their number,
\* completed_trial_count.
DurableTrials(j) == UNION {{t} \X (1 .. results[j][t]) : t \in Attempts}
CompletedTrials(j) == Cardinality(DurableTrials(j))

\* completed_attempt: some trial directory the prefix of t matches is durable.
CompletedAttempt(j, t) == \E u \in Matches[t] : results[j][u] > 0

Missing(p) == {t \in Wanted[p] : ~CompletedAttempt(job[p], t)}

\* Fault: the job result on disk is the baseline of every event.
JobResultAccumulated(p, requested) ==
  LET completed == job_result[job[p]].completed + recorded[p]
  IN  [completed |-> completed,
       total |-> Max({requested, Cardinality(Wanted[p]), baseline[p].total, completed})]

\* Fault: the total is what this session asked for.
JobResultOfSession(p, requested) ==
  LET completed == baseline[p].completed + recorded[p]
  IN  [completed |-> completed, total |-> Max({requested, completed})]

\* write_job: what the session recorded on top of what attach found.
JobResult(p, requested) ==
  LET completed == baseline[p].completed + recorded[p]
  IN  [completed |-> completed,
       total |-> Max({requested, Cardinality(Wanted[p]), baseline[p].total, completed})]

\* finished_at of a job result.
IsFinal(result) == result.total > 0 /\ result.completed = result.total

Init ==
  /\ directories = 0
  /\ identified = <<>>
  /\ lease = [j \in Jobs |-> None]
  /\ run = [j \in Jobs |-> {}]
  /\ results = [j \in Jobs |-> [t \in Attempts |-> 0]]
  /\ lock_json = [j \in Jobs |-> 0]
  /\ job_result = [j \in Jobs |-> NoResult]
  /\ last_run = None
  /\ pc = [p \in Processes |-> "idle"]
  /\ job = [p \in Processes |-> 0]
  /\ expected = [p \in Processes |-> 0]
  /\ todo = [p \in Processes |-> {}]
  /\ recorded = [p \in Processes |-> 0]
  /\ baseline = [p \in Processes |-> NoBaseline]
  /\ crashes = 0

-----------------------------------------------------------------------------
(* EvalJob::resume_or_create, EvalJob::create and bind_run *)

\* The positions, oldest first, of the jobs resume_or_create would reopen.
Candidates(p) ==
  {i \in DOMAIN identified :
     /\ run[identified[i]] = Wanted[p]
     /\ CompletedTrials(identified[i]) < Cardinality(Wanted[p])}

\* The bound on job directories: those there are and those about to be made.
MayCreate ==
  directories + Cardinality({q \in Processes : pc[q] = "create"}) < MaxJobs

Resume(p) ==
  /\ pc[p] = "idle"
  /\ \/ \E i \in Candidates(p) :
          /\ \A k \in Candidates(p) : k <= i
          /\ pc' = [pc EXCEPT ![p] = "selected"]
          /\ job' = [job EXCEPT ![p] = identified[i]]
     \/ /\ Candidates(p) = {}
        /\ MayCreate
        /\ pc' = [pc EXCEPT ![p] = "create"]
        /\ UNCHANGED job
  /\ UNCHANGED <<disk, lease, expected, todo, recorded, baseline, crashes>>

\* --new
Fresh(p) ==
  /\ pc[p] = "idle"
  /\ MayCreate
  /\ pc' = [pc EXCEPT ![p] = "create"]
  /\ UNCHANGED <<disk, lease, memory, crashes>>

TakeLease(p) ==
  /\ pc[p] = "selected"
  /\ lease[job[p]] = None
  /\ lease' = [lease EXCEPT ![job[p]] = p]
  /\ pc' = [pc EXCEPT ![p] = "unbound"]
  /\ UNCHANGED <<disk, memory, crashes>>

\* WouldBlock becomes RunActive and the command fails.
RunActive(p) ==
  /\ pc[p] = "selected"
  /\ lease[job[p]] # None
  /\ pc' = [pc EXCEPT ![p] = "idle"]
  /\ job' = [job EXCEPT ![p] = 0]
  /\ UNCHANGED <<disk, lease, expected, todo, recorded, baseline, crashes>>

\* Fault: the job is bound and run before it has a job.json.
CreateAnonymously(p) ==
  /\ pc[p] = "create"
  /\ directories < MaxJobs
  /\ directories' = directories + 1
  /\ job' = [job EXCEPT ![p] = directories']
  /\ lease' = [lease EXCEPT ![directories'] = p]
  /\ pc' = [pc EXCEPT ![p] = "unbound"]
  /\ UNCHANGED <<identified, run, results, lock_json, job_result, last_run>>
  /\ UNCHANGED <<expected, todo, recorded, baseline, crashes>>

\* A new directory and its lease.  Nobody can contend for this one: a scan
\* takes no directory without a job.json.
CreateDirectory(p) ==
  /\ pc[p] = "create"
  /\ directories < MaxJobs
  /\ directories' = directories + 1
  /\ job' = [job EXCEPT ![p] = directories']
  /\ lease' = [lease EXCEPT ![directories'] = p]
  /\ pc' = [pc EXCEPT ![p] = "created"]
  /\ UNCHANGED <<identified, run, results, lock_json, job_result, last_run>>
  /\ UNCHANGED <<expected, todo, recorded, baseline, crashes>>

WriteIdentity(p) ==
  /\ pc[p] = "created"
  /\ identified' = Append(identified, job[p])
  /\ pc' = [pc EXCEPT ![p] = "unbound"]
  /\ UNCHANGED <<directories, run, results, lock_json, job_result, last_run>>
  /\ UNCHANGED <<lease, memory, crashes>>

\* Fault: the job is bound to the attempts that remain.
BindRemaining(p) ==
  /\ pc[p] = "unbound"
  /\ run' = [run EXCEPT ![job[p]] = Missing(p)]
  /\ pc' = [pc EXCEPT ![p] = "open"]
  /\ UNCHANGED <<directories, identified, results, lock_json, job_result, last_run>>
  /\ UNCHANGED <<lease, memory, crashes>>

\* persist_noclobber on a job without run.json, verify_run otherwise.
BindRun(p) ==
  /\ pc[p] = "unbound"
  /\ run[job[p]] \in {{}, Wanted[p]}
  /\ run' = [run EXCEPT ![job[p]] = Wanted[p]]
  /\ pc' = [pc EXCEPT ![p] = "open"]
  /\ UNCHANGED <<directories, identified, results, lock_json, job_result, last_run>>
  /\ UNCHANGED <<lease, memory, crashes>>

-----------------------------------------------------------------------------
(* Eval::run: remaining_attempts, Harbor::new, Nanoeval::sweep *)

\* remaining_attempts, then attach: it keeps what it finds as the baseline and
\* rewrites lock.json and result.json.
Attach(p) ==
  LET j == job[p]
  IN  /\ pc[p] = "open"
      /\ expected' = [expected EXCEPT ![p] = Cardinality(Missing(p))]
      /\ baseline' = [baseline EXCEPT ![p] =
                        [total |-> job_result[j].total,
                         completed |-> job_result[j].completed,
                         locked |-> lock_json[j]]]
      /\ job_result' = [job_result EXCEPT ![j].total =
                          Max({Cardinality(Wanted[p]), job_result[j].total,
                               job_result[j].completed})]
      /\ pc' = [pc EXCEPT ![p] = "attached"]
      /\ UNCHANGED <<directories, identified, run, results, lock_json, last_run>>
      /\ UNCHANGED <<lease, job, todo, recorded, crashes>>

\* Fault: the sweep runs every attempt.
StartWholeSweep(p) ==
  /\ pc[p] = "attached"
  /\ todo' = [todo EXCEPT ![p] = Wanted[p]]
  /\ pc' = [pc EXCEPT ![p] = "sweeping"]
  /\ UNCHANGED <<disk, lease, job, expected, recorded, baseline, crashes>>

\* sweep skips what is durable and hands the rest to run_tasks.
StartSweep(p) ==
  /\ pc[p] = "attached"
  /\ todo' = [todo EXCEPT ![p] = Missing(p)]
  /\ pc' = [pc EXCEPT ![p] = "sweeping"]
  /\ UNCHANGED <<disk, lease, job, expected, recorded, baseline, crashes>>

-----------------------------------------------------------------------------
(* The recorder takes the terminal events of the attempts in whatever      *)
(* order they end.                                                         *)

\* write_trial or write_failure, up to the rename of the trial's result.json.
RecordTrial(p, t) ==
  /\ pc[p] = "sweeping"
  /\ t \in todo[p]
  /\ results' = [results EXCEPT ![job[p]][t] = @ + 1]
  /\ todo' = [todo EXCEPT ![p] = @ \ {t}]
  /\ recorded' = [recorded EXCEPT ![p] = @ + 1]
  /\ pc' = [pc EXCEPT ![p] = "committed"]
  /\ UNCHANGED <<directories, identified, run, lock_json, job_result, last_run>>
  /\ UNCHANGED <<lease, job, expected, baseline, crashes>>

\* write_job_metadata
RecordLock(p) ==
  /\ pc[p] = "committed"
  /\ lock_json' = [lock_json EXCEPT ![job[p]] = baseline[p].locked + recorded[p]]
  /\ pc' = [pc EXCEPT ![p] = "locked"]
  /\ UNCHANGED <<directories, identified, run, results, job_result, last_run>>
  /\ UNCHANGED <<lease, memory, crashes>>

\* write_job after one terminal event
RecordJob(p) ==
  /\ pc[p] = "locked"
  /\ job_result' = [job_result EXCEPT ![job[p]] = JobResult(p, recorded[p])]
  /\ pc' = [pc EXCEPT ![p] = "sweeping"]
  /\ UNCHANGED <<directories, identified, run, results, lock_json, last_run>>
  /\ UNCHANGED <<lease, memory, crashes>>

\* finish_all(expected): the recorder has seen that many terminal events.
Finish(p) ==
  /\ pc[p] = "sweeping"
  /\ todo[p] = {}
  /\ recorded[p] = expected[p]
  /\ job_result' = [job_result EXCEPT ![job[p]] = JobResult(p, expected[p])]
  /\ pc' = [pc EXCEPT ![p] = "finished"]
  /\ UNCHANGED <<directories, identified, run, results, lock_json, last_run>>
  /\ UNCHANGED <<lease, memory, crashes>>

\* Fault: the lease is a file that outlives its process.
StopKeepingLease(p) ==
  /\ pc' = [pc EXCEPT ![p] = "idle"]
  /\ job' = [job EXCEPT ![p] = 0]
  /\ expected' = [expected EXCEPT ![p] = 0]
  /\ todo' = [todo EXCEPT ![p] = {}]
  /\ recorded' = [recorded EXCEPT ![p] = 0]
  /\ baseline' = [baseline EXCEPT ![p] = NoBaseline]
  /\ UNCHANGED <<lease, directories, identified, run, results, lock_json, job_result>>

Stop(p) ==
  /\ pc' = [pc EXCEPT ![p] = "idle"]
  /\ lease' = [j \in Jobs |-> IF lease[j] = p THEN None ELSE lease[j]]
  /\ job' = [job EXCEPT ![p] = 0]
  /\ expected' = [expected EXCEPT ![p] = 0]
  /\ todo' = [todo EXCEPT ![p] = {}]
  /\ recorded' = [recorded EXCEPT ![p] = 0]
  /\ baseline' = [baseline EXCEPT ![p] = NoBaseline]
  /\ UNCHANGED <<directories, identified, run, results, lock_json, job_result>>

\* record_last_run, and the process ends.
RecordLastRun(p) ==
  /\ pc[p] = "finished"
  /\ last_run' = job[p]
  /\ Stop(p)
  /\ UNCHANGED crashes

Crash(p) ==
  /\ pc[p] # "idle"
  /\ crashes < MaxCrashes
  /\ crashes' = crashes + 1
  /\ Stop(p)
  /\ UNCHANGED last_run

-----------------------------------------------------------------------------
Work(p) ==
  \/ TakeLease(p)
  \/ RunActive(p)
  \/ CreateDirectory(p)
  \/ WriteIdentity(p)
  \/ BindRun(p)
  \/ Attach(p)
  \/ StartSweep(p)
  \/ \E t \in Attempts : RecordTrial(p, t)
  \/ RecordLock(p)
  \/ RecordJob(p)
  \/ Finish(p)
  \/ RecordLastRun(p)

Next == \E p \in Processes : Resume(p) \/ Fresh(p) \/ Work(p) \/ Crash(p)

Spec == Init /\ [][Next]_vars

\* A running command keeps running until it ends or crashes, and the user
\* repeats the identical command.  Nobody has to pass --new.
FairSpec ==
  Spec /\ \A p \in Processes : WF_vars(Work(p)) /\ WF_vars(Resume(p))

-----------------------------------------------------------------------------
AllDurable(j) == \A t \in run[j] : results[j][t] > 0

\* An attempt with a durable result is never run again in its job, though the
\* scan that chose the job is stale by the time its lease is taken.
OneResultPerAttempt ==
  \A j \in Jobs, t \in Attempts : results[j][t] <= 1

\* A result never outlives the files resume needs to find it: the job has its
\* identity and is bound to a sweep the result belongs to.
DurableResultsReachable ==
  \A j \in Jobs, t \in Attempts :
    results[j][t] > 0 => j \in Range(identified) /\ t \in run[j]

\* The Harbor files of the job never claim more than what is durable, however
\* many sessions, each with its own baseline, have added to them.
HarborNeverOvercounts ==
  \A j \in Jobs :
    /\ job_result[j].completed <= lock_json[j]
    /\ lock_json[j] <= CompletedTrials(j)

\* A job result with a finished_at, and the job last-run.json names, stand for
\* a job that has nothing left to run.
FinalMeansAllDurable ==
  /\ \A j \in Jobs : IsFinal(job_result[j]) => AllDurable(j)
  /\ last_run # None => AllDurable(last_run)

\* The jobs whose result.json has a finished_at.
FinishedJobs == {j \in Jobs : IsFinal(job_result[j])}

\* However commands overlap and crash, the directories behave as one ledger for
\* each job: nothing is rebound, entered twice or erased, and a finished_at is
\* written for a complete sweep only and never taken back, though every session
\* rewrites the job's result.json from what it found when it attached.
Ledger == INSTANCE JobLedger WITH
  Sweeps <- {Wanted[p] : p \in Processes},
  sweep <- run, entries <- results, finished <- FinishedJobs
ImplementsLedger == Ledger!Spec

\* README.md:295, interruption-safe: a bound job is completed in the end if the
\* command is repeated, whatever finite number of processes crash on it.
BoundJobsComplete ==
  \A j \in Jobs : (run[j] # {}) ~> (run[j] # {} /\ AllDurable(j))

=============================================================================
